---------------------------- MODULE Spec2Model ----------------------------
(***************************************************************************)
(* A model of src/jasypt_utils.py: the JasyptEncryptor class (constructor, *)
(* _openssl_kdf, encrypt, decrypt) and the callers' view of it.            *)
(*                                                                         *)
(* Python values are boxed with their type, so that `x or y` and `not x`   *)
(* mean what they mean in Python.  A str whose characters the code looks   *)
(* at (passwords, plaintexts, tokens) is a sequence of Unicode code        *)
(* points; an algorithm name, which the code only compares and looks up,   *)
(* is a TLA+ string.  bytes are sequences of 0..255.                       *)
(*                                                                         *)
(* The library primitives the code calls (MD5/SHA1, DES/DES3, the secure   *)
(* random source) are replaced by small stand-ins with the same            *)
(* interface: a deterministic digest of the right size, a keyed block      *)
(* permutation with its inverse, a salt drawn from a finite set.  What the *)
(* repository's own code does with them (the KDF loop, salt || ciphertext, *)
(* padding, Base64, UTF-8, the order of the checks) is modelled as         *)
(* written.                                                                *)
(*                                                                         *)
(* Where the answer depends on the primitives themselves (the token of the *)
(* __main__ block, which the Java library made), the registry holds MD5    *)
(* and DES as their standards define them.                                 *)
(***************************************************************************)
EXTENDS Integers, Sequences, FiniteSets, TLC

VARIABLES
    ALGORITHMS,   \* the class attribute JasyptEncryptor.ALGORITHMS
    self,         \* the encryptor the caller holds, or NoInstance
    call,         \* the call that has just returned (or raised), or Idle
    threads       \* of each thread, the encrypt or decrypt call it is in

vars == <<ALGORITHMS, self, call, threads>>

----------------------------------------------------------------------------
(* Bounds of the model.                                                    *)

\* How many distinct salts get_random_bytes(8) may return.
NumSalts == 2
\* The longest plaintext, in characters.
MaxPlainLen == 3

----------------------------------------------------------------------------
(* Python values.                                                          *)

None == [type |-> "NoneType"]
PyStr(s) == [type |-> "str", s |-> s]
PyInt(n) == [type |-> "int", n |-> n]

\* A bool(v) that holds of every value but None: the variant of Truthy
\* that lets an empty string through.
NotNone(v) == v.type # "NoneType"

\* bool(v)
Truthy(v) ==
    CASE v.type = "str" -> Len(v.s) > 0
      [] v.type = "int" -> v.n # 0
      [] OTHER -> FALSE

\* b or a: the variant of Or that gives the second value precedence.
OrReversed(a, b) == IF Truthy(b) THEN b ELSE a

\* b if a is None else a: the variant of Or that replaces None only and
\* keeps 0 and the empty string.
OrIfNone(a, b) == IF a.type = "NoneType" THEN b ELSE a

\* a or b
Or(a, b) == IF Truthy(a) THEN a ELSE b

\* How a call ends: a returned value, or a raised exception.  `at` is the
\* raise statement, `cause` the message of the library error it wraps or
\* lets through.
Returned(v) == [ok |-> TRUE, value |-> v]
Raised(exc, at, cause) == [ok |-> FALSE, exc |-> exc, at |-> at, cause |-> cause]

Byte == 0..255

RECURSIVE Concat(_)
\* b''.join(m)
Concat(m) == IF m = <<>> THEN <<>> ELSE Head(m) \o Concat(Tail(m))

\* seq[lo:hi] for 0 <= lo, hi (Python slice, zero-based, end excluded)
Slice(seq, lo, hi) ==
    LET h == IF hi > Len(seq) THEN Len(seq) ELSE hi
    IN  IF lo >= h THEN <<>> ELSE [i \in 1..(h - lo) |-> seq[lo + i]]

----------------------------------------------------------------------------
(* str.encode('utf-8') and bytes.decode('utf-8').                          *)

\* The UTF-8 encoding of one code point (a Unicode scalar value).
utf8_char(c) ==
    IF c < 128 THEN <<c>>
    ELSE IF c < 2048 THEN <<192 + (c \div 64), 128 + (c % 64)>>
    ELSE IF c < 65536 THEN
        <<224 + (c \div 4096), 128 + ((c \div 64) % 64), 128 + (c % 64)>>
    ELSE <<240 + (c \div 262144), 128 + ((c \div 4096) % 64),
           128 + ((c \div 64) % 64), 128 + (c % 64)>>

RECURSIVE utf8_encode(_)
utf8_encode(s) ==
    IF s = <<>> THEN <<>> ELSE utf8_char(Head(s)) \o utf8_encode(Tail(s))

IsCont(b) == b >= 128 /\ b <= 191

RECURSIVE utf8_decode_from(_, _, _)
\* Strict decoding of b[i..]: the code points so far are in acc.
utf8_decode_from(b, i, acc) ==
    IF i > Len(b) THEN [ok |-> TRUE, s |-> acc]
    ELSE LET b0 == b[i]
             n == IF b0 < 128 THEN 1
                  ELSE IF b0 >= 194 /\ b0 <= 223 THEN 2
                  ELSE IF b0 >= 224 /\ b0 <= 239 THEN 3
                  ELSE IF b0 >= 240 /\ b0 <= 244 THEN 4
                  ELSE 0
         IN  IF n = 0 \/ i + n - 1 > Len(b) THEN [ok |-> FALSE]
             ELSE IF n = 1 THEN utf8_decode_from(b, i + 1, Append(acc, b0))
             ELSE IF \E j \in 1..(n - 1) : ~IsCont(b[i + j]) THEN [ok |-> FALSE]
             ELSE IF n = 2 THEN
                 utf8_decode_from(b, i + 2,
                     Append(acc, (b0 - 192) * 64 + (b[i + 1] - 128)))
             ELSE IF n = 3 THEN
                 LET c == (b0 - 224) * 4096 + (b[i + 1] - 128) * 64
                          + (b[i + 2] - 128)
                 IN  IF c < 2048 \/ (c >= 55296 /\ c <= 57343)
                     THEN [ok |-> FALSE]
                     ELSE utf8_decode_from(b, i + 3, Append(acc, c))
             ELSE
                 LET c == (b0 - 240) * 262144 + (b[i + 1] - 128) * 4096
                          + (b[i + 2] - 128) * 64 + (b[i + 3] - 128)
                 IN  IF c < 65536 \/ c > 1114111 THEN [ok |-> FALSE]
                     ELSE utf8_decode_from(b, i + 4, Append(acc, c))

\* A decoding that takes every byte for a code point and never fails: the
\* variant of utf8_decode that does not validate.
decode_bytewise(b) == [ok |-> TRUE, s |-> b]

utf8_decode(b) == utf8_decode_from(b, 1, <<>>)

----------------------------------------------------------------------------
(* base64.b64encode and base64.b64decode (the lenient default,             *)
(* validate=False: characters outside the alphabet are skipped).           *)

B64Alphabet ==
    <<65, 66, 67, 68, 69, 70, 71, 72, 73, 74, 75, 76, 77, 78, 79, 80, 81, 82,
      83, 84, 85, 86, 87, 88, 89, 90, 97, 98, 99, 100, 101, 102, 103, 104,
      105, 106, 107, 108, 109, 110, 111, 112, 113, 114, 115, 116, 117, 118,
      119, 120, 121, 122, 48, 49, 50, 51, 52, 53, 54, 55, 56, 57, 43, 47>>

B64Pad == <<61>>

RECURSIVE b64encode(_)
\* The Base64 text (as code points) of bytes b.
b64encode(b) ==
    IF Len(b) = 0 THEN <<>>
    ELSE IF Len(b) = 1 THEN
        <<B64Alphabet[(b[1] \div 4) + 1], B64Alphabet[(b[1] % 4) * 16 + 1],
          B64Pad[1], B64Pad[1]>>
    ELSE IF Len(b) = 2 THEN
        <<B64Alphabet[(b[1] \div 4) + 1],
          B64Alphabet[(b[1] % 4) * 16 + (b[2] \div 16) + 1],
          B64Alphabet[(b[2] % 16) * 4 + 1], B64Pad[1]>>
    ELSE
        <<B64Alphabet[(b[1] \div 4) + 1],
          B64Alphabet[(b[1] % 4) * 16 + (b[2] \div 16) + 1],
          B64Alphabet[(b[2] % 16) * 4 + (b[3] \div 64) + 1],
          B64Alphabet[(b[3] % 64) + 1]>> \o b64encode(Slice(b, 3, Len(b)))

\* The value 0..63 of a Base64 character, 64 for any other character.
B64Value(c) ==
    IF c >= 65 /\ c <= 90 THEN c - 65
    ELSE IF c >= 97 /\ c <= 122 THEN c - 71
    ELSE IF c >= 48 /\ c <= 57 THEN c + 4
    ELSE IF c = 43 THEN 62
    ELSE IF c = 47 THEN 63
    ELSE 64

RECURSIVE a2b_base64(_, _, _, _, _, _)
\* binascii.a2b_base64 in its non-strict mode, from character i of s on:
\* quad_pos data characters of the current quad are read, leftchar holds
\* their pending bits, pads counts the '=' seen since the last data
\* character, out is the output so far.
a2b_base64(s, i, quad_pos, leftchar, pads, out) ==
    IF i > Len(s) THEN
        IF quad_pos = 0 THEN [ok |-> TRUE, bytes |-> out]
        ELSE IF quad_pos = 1 THEN
            [ok |-> FALSE, cause |-> "Invalid base64-encoded string"]
        ELSE [ok |-> FALSE, cause |-> "Incorrect padding"]
    ELSE IF s[i] = B64Pad[1] THEN
        IF quad_pos >= 2 /\ quad_pos + pads + 1 >= 4
        THEN [ok |-> TRUE, bytes |-> out]
        ELSE a2b_base64(s, i + 1, quad_pos, leftchar,
                        IF quad_pos >= 2 THEN pads + 1 ELSE pads, out)
    ELSE LET v == B64Value(s[i])
         IN  IF v = 64 THEN a2b_base64(s, i + 1, quad_pos, leftchar, pads, out)
             ELSE IF quad_pos = 0 THEN a2b_base64(s, i + 1, 1, v, 0, out)
             ELSE IF quad_pos = 1 THEN
                 a2b_base64(s, i + 1, 2, v % 16, 0,
                            Append(out, leftchar * 4 + (v \div 16)))
             ELSE IF quad_pos = 2 THEN
                 a2b_base64(s, i + 1, 3, v % 4, 0,
                            Append(out, leftchar * 16 + (v \div 4)))
             ELSE a2b_base64(s, i + 1, 0, 0, 0, Append(out, leftchar * 64 + v))

\* base64.b64decode(s) for a str s: s must be ASCII, then a2b_base64.
b64decode(s) ==
    IF \E i \in 1..Len(s) : s[i] > 127
    THEN [ok |-> FALSE,
          cause |-> "string argument should contain only ASCII characters"]
    ELSE a2b_base64(s, 1, 0, 0, 0, <<>>)

----------------------------------------------------------------------------
(* The library's own MD5 and DES, for a token that another                 *)
(* implementation made.  A 32-bit word is a pair <<high 16 bits, low 16    *)
(* bits>>.                                                                 *)

\* MD5's constants floor(abs(sin(i + 1)) * 2^32), i = 0..63, and its
\* rotations.
MD5_K ==
    <<<<55146, 42104>>, <<59591, 46934>>, <<9248, 28891>>, <<49597, 52974>>,
      <<62844, 4015>>, <<18311, 50730>>, <<43056, 17939>>, <<64838, 38145>>,
      <<27008, 39128>>, <<35652, 63407>>, <<65535, 23473>>, <<35164, 55230>>,
      <<27536, 4386>>, <<64920, 29075>>, <<42617, 17294>>, <<18868, 2081>>,
      <<63006, 9570>>, <<49216, 45888>>, <<9822, 23121>>, <<59830, 51114>>,
      <<54831, 4189>>, <<580, 5203>>, <<55457, 59009>>, <<59347, 64456>>,
      <<8673, 52710>>, <<49975, 2006>>, <<62677, 3463>>, <<17754, 5357>>,
      <<43491, 59653>>, <<64751, 41976>>, <<26479, 729>>, <<36138, 19594>>,
      <<65530, 14658>>, <<34673, 63105>>, <<28061, 24866>>, <<64997, 14348>>,
      <<42174, 59972>>, <<19422, 53161>>, <<63163, 19296>>, <<48831, 48240>>,
      <<10395, 32454>>, <<60065, 10234>>, <<54511, 12421>>, <<1160, 7429>>,
      <<55764, 53305>>, <<59099, 39397>>, <<8098, 31992>>, <<50348, 22117>>,
      <<62505, 8772>>, <<17194, 65431>>, <<43924, 9127>>, <<64659, 41017>>,
      <<25947, 22979>>, <<36620, 52370>>, <<65519, 62589>>, <<34180, 24017>>,
      <<28584, 32335>>, <<65068, 59104>>, <<41729, 17172>>, <<19976, 4513>>,
      <<63315, 32386>>, <<48442, 62005>>, <<10967, 53947>>, <<60294, 54161>>>>

MD5_S ==
    <<7, 12, 17, 22, 7, 12, 17, 22, 7, 12, 17, 22, 7, 12, 17, 22,
      5, 9, 14, 20, 5, 9, 14, 20, 5, 9, 14, 20, 5, 9, 14, 20,
      4, 11, 16, 23, 4, 11, 16, 23, 4, 11, 16, 23, 4, 11, 16, 23,
      6, 10, 15, 21, 6, 10, 15, 21, 6, 10, 15, 21, 6, 10, 15, 21>>

\* x + y modulo 2^32, on words <<high 16 bits, low 16 bits>>.
Add32(x, y) ==
    <<(x[1] + y[1] + ((x[2] + y[2]) \div 65536)) % 65536,
      (x[2] + y[2]) % 65536>>

\* x rotated left by s bits, 0 < s < 32.
Rotl32(x, s) ==
    LET y == IF s >= 16 THEN <<x[2], x[1]>> ELSE x
        t == s % 16
    IN  IF t = 0 THEN y
        ELSE LET up == 2 ^ t
                 down == 2 ^ (16 - t)
             IN  <<(y[1] % down) * up + (y[2] \div down),
                   (y[2] % down) * up + (y[1] \div down)>>

\* MD5's four bitwise functions of b, c and d, on 4 bits, for every three
\* 4-bit values x = 256 * b + 16 * c + d:
\* F = (b & c) | (~b & d), G = (b & d) | (c & ~d), H = b ^ c ^ d,
\* I = c ^ (b | ~d).
MixTable ==
    LET RECURSIVE Mix(_, _, _, _, _)
        Mix(f, b, c, d, k) ==
            IF k = 0 THEN 0
            ELSE (CASE f = 0 -> IF b % 2 = 1 THEN c % 2 ELSE d % 2
                    [] f = 1 -> IF d % 2 = 1 THEN b % 2 ELSE c % 2
                    [] f = 2 -> (b + c + d) % 2
                    [] OTHER -> (c + (IF d % 2 = 0 THEN 1 ELSE b)) % 2)
                 + 2 * Mix(f, b \div 2, c \div 2, d \div 2, k - 1)
    IN  [f \in 0..3 |->
            [x \in 0..4095 |->
                Mix(f, x \div 256, (x \div 16) % 16, x % 16, 4)]]

\* The function f on words, a nibble at a time.
Mix32(f, b, c, d) ==
    LET Half(x, y, z) ==
            MixTable[f][(x % 16) * 256 + (y % 16) * 16 + (z % 16)]
            + 16 * MixTable[f][((x \div 16) % 16) * 256
                               + ((y \div 16) % 16) * 16
                               + ((z \div 16) % 16)]
            + 256 * MixTable[f][((x \div 256) % 16) * 256
                                + ((y \div 256) % 16) * 16
                                + ((z \div 256) % 16)]
            + 4096 * MixTable[f][(x \div 4096) * 256 + (y \div 4096) * 16
                                 + (z \div 4096)]
    IN  <<Half(b[1], c[1], d[1]), Half(b[2], c[2], d[2])>>

RECURSIVE md5_steps(_, _, _)
\* The steps i..63 on the state st = <<a, b, c, d>> with the message words
\* M.
md5_steps(st, M, i) ==
    IF i = 64 THEN st
    ELSE LET f == i \div 16
             g == CASE f = 0 -> i
                    [] f = 1 -> (5 * i + 1) % 16
                    [] f = 2 -> (3 * i + 5) % 16
                    [] OTHER -> (7 * i) % 16
         IN  CHOOSE out \in
                {md5_steps(<<st[4],
                             Add32(st[2], Rotl32(sum, MD5_S[i + 1])),
                             st[2], st[3]>>, M, i + 1) :
                    sum \in {Add32(Add32(st[1], mix),
                                   Add32(MD5_K[i + 1], M[g + 1])) :
                                mix \in {Mix32(f, st[2], st[3], st[4])}}} :
                TRUE

RECURSIVE md5_blocks(_, _)
\* The state after the 64-byte blocks of data (each block as 16
\* little-endian words), each block's result added to the state before it.
md5_blocks(st, data) ==
    IF Len(data) = 0 THEN st
    ELSE LET block == SubSeq(data, 1, 64)
             words == [w \in 1..16 |->
                          <<block[4 * w] * 256 + block[4 * w - 1],
                            block[4 * w - 2] * 256 + block[4 * w - 3]>>]
         IN  CHOOSE out \in
                {md5_blocks([j \in 1..4 |-> Add32(st[j], after[j])],
                            SubSeq(data, 65, Len(data))) :
                    after \in {md5_steps(st, M, 0) : M \in {words \o <<>>}}} :
                TRUE

\* Crypto.Hash.MD5.new(data).digest(): the MD5 digest (RFC 1321) of data,
\* 16 bytes, the four state words in little-endian order.  The message is
\* padded with 0x80, zeros up to 56 modulo 64, and its length in bits as 8
\* little-endian bytes.
MD5(data) ==
    LET zeros == (55 - Len(data)) % 64
        bits == Len(data) * 8
        padded == data \o <<128>> \o [j \in 1..zeros |-> 0]
                  \o <<bits % 256, (bits \div 256) % 256,
                       (bits \div 65536) % 256, (bits \div 16777216) % 256,
                       0, 0, 0, 0>>
    IN  CHOOSE out \in
            {[j \in 1..16 |->
                 LET w == st[((j - 1) \div 4) + 1]
                     k == (j - 1) % 4
                 IN  CASE k = 0 -> w[2] % 256
                       [] k = 1 -> w[2] \div 256
                       [] k = 2 -> w[1] % 256
                       [] OTHER -> w[1] \div 256] \o <<>> :
                st \in {md5_blocks(<<<<26437, 8961>>, <<61389, 43913>>,
                                     <<39098, 56574>>, <<4146, 21622>>>>,
                                   padded)}} : TRUE

\* The tables of the Data Encryption Standard (FIPS 46-3).

DES_IP ==
    <<58, 50, 42, 34, 26, 18, 10, 2, 60, 52, 44, 36, 28, 20, 12, 4,
      62, 54, 46, 38, 30, 22, 14, 6, 64, 56, 48, 40, 32, 24, 16, 8,
      57, 49, 41, 33, 25, 17, 9, 1, 59, 51, 43, 35, 27, 19, 11, 3,
      61, 53, 45, 37, 29, 21, 13, 5, 63, 55, 47, 39, 31, 23, 15, 7>>

DES_FP ==
    <<40, 8, 48, 16, 56, 24, 64, 32, 39, 7, 47, 15, 55, 23, 63, 31,
      38, 6, 46, 14, 54, 22, 62, 30, 37, 5, 45, 13, 53, 21, 61, 29,
      36, 4, 44, 12, 52, 20, 60, 28, 35, 3, 43, 11, 51, 19, 59, 27,
      34, 2, 42, 10, 50, 18, 58, 26, 33, 1, 41, 9, 49, 17, 57, 25>>

DES_E ==
    <<32, 1, 2, 3, 4, 5, 4, 5, 6, 7, 8, 9,
      8, 9, 10, 11, 12, 13, 12, 13, 14, 15, 16, 17,
      16, 17, 18, 19, 20, 21, 20, 21, 22, 23, 24, 25,
      24, 25, 26, 27, 28, 29, 28, 29, 30, 31, 32, 1>>

DES_P ==
    <<16, 7, 20, 21, 29, 12, 28, 17, 1, 15, 23, 26, 5, 18, 31, 10,
      2, 8, 24, 14, 32, 27, 3, 9, 19, 13, 30, 6, 22, 11, 4, 25>>

DES_PC1 ==
    <<57, 49, 41, 33, 25, 17, 9, 1, 58, 50, 42, 34, 26, 18,
      10, 2, 59, 51, 43, 35, 27, 19, 11, 3, 60, 52, 44, 36,
      63, 55, 47, 39, 31, 23, 15, 7, 62, 54, 46, 38, 30, 22,
      14, 6, 61, 53, 45, 37, 29, 21, 13, 5, 28, 20, 12, 4>>

DES_PC2 ==
    <<14, 17, 11, 24, 1, 5, 3, 28, 15, 6, 21, 10,
      23, 19, 12, 4, 26, 8, 16, 7, 27, 20, 13, 2,
      41, 52, 31, 37, 47, 55, 30, 40, 51, 45, 33, 48,
      44, 49, 39, 56, 34, 53, 46, 42, 50, 36, 29, 32>>

DES_S ==
    <<<<14, 4, 13, 1, 2, 15, 11, 8, 3, 10, 6, 12, 5, 9, 0, 7,
        0, 15, 7, 4, 14, 2, 13, 1, 10, 6, 12, 11, 9, 5, 3, 8,
        4, 1, 14, 8, 13, 6, 2, 11, 15, 12, 9, 7, 3, 10, 5, 0,
        15, 12, 8, 2, 4, 9, 1, 7, 5, 11, 3, 14, 10, 0, 6, 13>>,
      <<15, 1, 8, 14, 6, 11, 3, 4, 9, 7, 2, 13, 12, 0, 5, 10,
        3, 13, 4, 7, 15, 2, 8, 14, 12, 0, 1, 10, 6, 9, 11, 5,
        0, 14, 7, 11, 10, 4, 13, 1, 5, 8, 12, 6, 9, 3, 2, 15,
        13, 8, 10, 1, 3, 15, 4, 2, 11, 6, 7, 12, 0, 5, 14, 9>>,
      <<10, 0, 9, 14, 6, 3, 15, 5, 1, 13, 12, 7, 11, 4, 2, 8,
        13, 7, 0, 9, 3, 4, 6, 10, 2, 8, 5, 14, 12, 11, 15, 1,
        13, 6, 4, 9, 8, 15, 3, 0, 11, 1, 2, 12, 5, 10, 14, 7,
        1, 10, 13, 0, 6, 9, 8, 7, 4, 15, 14, 3, 11, 5, 2, 12>>,
      <<7, 13, 14, 3, 0, 6, 9, 10, 1, 2, 8, 5, 11, 12, 4, 15,
        13, 8, 11, 5, 6, 15, 0, 3, 4, 7, 2, 12, 1, 10, 14, 9,
        10, 6, 9, 0, 12, 11, 7, 13, 15, 1, 3, 14, 5, 2, 8, 4,
        3, 15, 0, 6, 10, 1, 13, 8, 9, 4, 5, 11, 12, 7, 2, 14>>,
      <<2, 12, 4, 1, 7, 10, 11, 6, 8, 5, 3, 15, 13, 0, 14, 9,
        14, 11, 2, 12, 4, 7, 13, 1, 5, 0, 15, 10, 3, 9, 8, 6,
        4, 2, 1, 11, 10, 13, 7, 8, 15, 9, 12, 5, 6, 3, 0, 14,
        11, 8, 12, 7, 1, 14, 2, 13, 6, 15, 0, 9, 10, 4, 5, 3>>,
      <<12, 1, 10, 15, 9, 2, 6, 8, 0, 13, 3, 4, 14, 7, 5, 11,
        10, 15, 4, 2, 7, 12, 9, 5, 6, 1, 13, 14, 0, 11, 3, 8,
        9, 14, 15, 5, 2, 8, 12, 3, 7, 0, 4, 10, 1, 13, 11, 6,
        4, 3, 2, 12, 9, 5, 15, 10, 11, 14, 1, 7, 6, 0, 8, 13>>,
      <<4, 11, 2, 14, 15, 0, 8, 13, 3, 12, 9, 7, 5, 10, 6, 1,
        13, 0, 11, 7, 4, 9, 1, 10, 14, 3, 5, 12, 2, 15, 8, 6,
        1, 4, 11, 13, 12, 3, 7, 14, 10, 15, 6, 8, 0, 5, 9, 2,
        6, 11, 13, 8, 1, 4, 10, 7, 9, 5, 0, 15, 14, 2, 3, 12>>,
      <<13, 2, 8, 4, 6, 15, 11, 1, 10, 9, 3, 14, 5, 0, 12, 7,
        1, 15, 13, 8, 10, 3, 7, 4, 12, 5, 6, 11, 0, 14, 9, 2,
        7, 11, 4, 1, 9, 12, 14, 2, 0, 6, 10, 13, 15, 3, 5, 8,
        2, 1, 14, 7, 4, 10, 8, 13, 15, 12, 9, 0, 3, 5, 6, 11>>>>

\* The bits of a bytes value, the most significant bit of each byte first.
BitsOf(bytes) ==
    [i \in 1..(8 * Len(bytes)) |->
        (bytes[((i - 1) \div 8) + 1]
         \div <<128, 64, 32, 16, 8, 4, 2, 1>>[((i - 1) % 8) + 1]) % 2] \o <<>>

Permute(table, bits) == [i \in 1..Len(table) |-> bits[table[i]]] \o <<>>

XorBits(x, y) == [i \in 1..Len(x) |-> (x[i] + y[i]) % 2] \o <<>>

\* The 16 round keys of a key of 8 bytes (its parity bits are not used):
\* round r takes its bits from the two halves of the key, each rotated left
\* by the shifts of the rounds up to r.
des_subkeys(key) ==
    LET rotations == <<1, 2, 4, 6, 8, 10, 12, 14,
                       15, 17, 19, 21, 23, 25, 27, 28>>
        RotateHalf(half, n) ==
            [i \in 1..28 |-> half[((i - 1 + n) % 28) + 1]] \o <<>>
    IN  CHOOSE ks \in
            {[r \in 1..16 |->
                 Permute(DES_PC2,
                         RotateHalf(SubSeq(cd, 1, 28), rotations[r])
                         \o RotateHalf(SubSeq(cd, 29, 56), rotations[r]))]
             \o <<>> : cd \in {Permute(DES_PC1, BitsOf(key))}} : TRUE

\* The cipher function f(R, K); des_sbox(j, six) is the 4 bits that S-box
\* j gives for 6 bits.
des_f(r, k) ==
    LET des_sbox(j, six) ==
            LET v == DES_S[j][(2 * six[1] + six[6]) * 16 + 8 * six[2]
                              + 4 * six[3] + 2 * six[4] + six[5] + 1]
            IN  <<v \div 8, (v \div 4) % 2, (v \div 2) % 2, v % 2>>
    IN
    CHOOSE out \in
        {Permute(DES_P,
                 des_sbox(1, SubSeq(x, 1, 6)) \o des_sbox(2, SubSeq(x, 7, 12))
                 \o des_sbox(3, SubSeq(x, 13, 18))
                 \o des_sbox(4, SubSeq(x, 19, 24))
                 \o des_sbox(5, SubSeq(x, 25, 30))
                 \o des_sbox(6, SubSeq(x, 31, 36))
                 \o des_sbox(7, SubSeq(x, 37, 42))
                 \o des_sbox(8, SubSeq(x, 43, 48))) :
            x \in {XorBits(Permute(DES_E, r), k)}} : TRUE

RECURSIVE des_rounds(_, _, _, _)
\* The rounds n.. on the halves lr = <<L, R>>, with the round keys in the
\* order given.
des_rounds(lr, ks, order, n) ==
    IF n > 16 THEN lr
    ELSE CHOOSE out \in
            {des_rounds(next, ks, order, n + 1) :
                next \in {<<lr[2],
                            XorBits(lr[1], des_f(lr[2], ks[order[n]]))>>}} :
            TRUE

\* One block of 8 bytes through DES under a key of 8 bytes: the round
\* keys in their order to encrypt, in the opposite order to decrypt.
des_crypt(key, block, order) ==
    LET BytesOf(bits) ==
            [j \in 1..(Len(bits) \div 8) |->
                128 * bits[8 * j - 7] + 64 * bits[8 * j - 6]
                + 32 * bits[8 * j - 5] + 16 * bits[8 * j - 4]
                + 8 * bits[8 * j - 3] + 4 * bits[8 * j - 2]
                + 2 * bits[8 * j - 1] + bits[8 * j]] \o <<>>
    IN
    CHOOSE out \in
        {BytesOf(Permute(DES_FP, lr[2] \o lr[1])) :
            lr \in {des_rounds(<<SubSeq(b, 1, 32), SubSeq(b, 33, 64)>>,
                               ks, order, 1) :
                       b \in {Permute(DES_IP, BitsOf(block))},
                       ks \in {des_subkeys(key)}}} : TRUE

\* Crypto.Cipher.DES on one block, in the direction named.
DES_encrypt(key, block) ==
    des_crypt(key, block, [n \in 1..16 |-> n])

DES_decrypt(key, block) ==
    des_crypt(key, block, [n \in 1..16 |-> 17 - n])

----------------------------------------------------------------------------
(* Stand-ins for the library primitives.                                   *)

\* cipher.block_size of DES and DES3, in bytes.
block_size == 8

\* The digest size of a hash module, in bytes.
digest_size(hash_algo) == IF hash_algo = "MD5" THEN 16 ELSE 20

\* A fixed sequence of 300 bytes that the digest stand-in draws its
\* output from.
Noise ==
    [i \in 1..300 |->
        (i * i * 7 + i * 13 + (i \div 3) * 101 + 5) % 256] \o <<>>

RECURSIVE Absorb(_, _, _)
\* The internal state of the digest stand-in after bytes i.. of data
\* (four bytes at a step while four are left).
Absorb(data, i, s) ==
    IF i + 3 <= Len(data)
    THEN Absorb(data, i + 4,
                (s * 33 + data[i] * 29 + data[i + 1] * 17 + data[i + 2] * 5
                 + data[i + 3] + 1) % 65521)
    ELSE IF i > Len(data) THEN s
    ELSE Absorb(data, i + 1, (s * 33 + data[i] + 1) % 65521)

\* The size digest bytes of the final internal state s: two windows of
\* Noise, placed by s.
Squeeze(s, size) ==
    SubSeq(Noise, 1 + (s % 251), 8 + (s % 251))
    \o SubSeq(Noise, 20 + (s \div 251), 11 + (s \div 251) + size)

\* A digest of no bytes: the variant of Digest under which a round adds
\* nothing to the output.
digest_nothing(hash_algo, data) == <<>>

\* hash_algo.new(data).digest(): a deterministic digest of digest_size
\* bytes that depends on every byte of data and on the hash module.
Digest(hash_algo, data) ==
    Squeeze(Absorb(data, 1, IF hash_algo = "MD5" THEN 5381 ELSE 40503),
            digest_size(hash_algo))

\* hash_algo.new(data).digest() where the registry may hold the library's
\* MD5 itself.
hash_digest(hash_algo, data) ==
    IF hash_algo = "Crypto.Hash.MD5" THEN MD5(data)
    ELSE Digest(hash_algo, data)

RECURSIVE BitXor(_, _, _)
\* a ^ b on the low n bits.
BitXor(a, b, n) ==
    IF n = 0 THEN 0
    ELSE ((a + b) % 2) + 2 * BitXor(a \div 2, b \div 2, n - 1)

XorBlock(x, y) == [i \in 1..block_size |-> BitXor(x[i], y[i], 8)]

\* One block through the single-DES stand-in: a permutation of the
\* 8-byte blocks for every 8-byte key.  Like DES it ignores the low
\* (parity) bit of every key byte.
des_encrypt_block(k, b) ==
    [i \in 1..block_size |-> (b[(i % block_size) + 1] + (k[i] \div 2) + i) % 256]

\* The inverse permutation.
des_decrypt_block(k, c) ==
    [j \in 1..block_size |->
        LET i == ((j + 6) % block_size) + 1
        IN  (c[i] - (k[i] \div 2) - i) % 256]

\* One block through the cipher object (the library's DES, the stand-in
\* of DES, or DES3 as
\* encrypt-decrypt-encrypt under the three 8-byte parts of its key).
encrypt_block(cipher, b) ==
    IF cipher.name = "Crypto.Cipher.DES" THEN DES_encrypt(cipher.key, b)
    ELSE IF cipher.name = "DES" THEN des_encrypt_block(cipher.key, b)
    ELSE des_encrypt_block(Slice(cipher.key, 16, 24),
            des_decrypt_block(Slice(cipher.key, 8, 16),
                des_encrypt_block(Slice(cipher.key, 0, 8), b)))

\* A block decryption that runs the cipher forwards: the variant of
\* decrypt_block that does not undo encrypt_block.
decrypt_block_forward(cipher, c) == encrypt_block(cipher, c)

decrypt_block(cipher, c) ==
    IF cipher.name = "Crypto.Cipher.DES" THEN DES_decrypt(cipher.key, c)
    ELSE IF cipher.name = "DES" THEN des_decrypt_block(cipher.key, c)
    ELSE des_decrypt_block(Slice(cipher.key, 0, 8),
            des_encrypt_block(Slice(cipher.key, 8, 16),
                des_decrypt_block(Slice(cipher.key, 16, 24), c)))

\* The key with its parity bits dropped.
KeyBits(k) == [i \in 1..Len(k) |-> k[i] \div 2]

\* config['cipher'].new(key, config['mode'], iv): the CBC cipher object,
\* or the ValueError the library raises for a key or IV of the wrong
\* length or a triple-DES key two of whose parts are equal.
new(cipher, key, iv) ==
    IF cipher \in {"DES", "Crypto.Cipher.DES"} /\ Len(key) # 8
    THEN [ok |-> FALSE, cause |-> "Incorrect DES key length"]
    ELSE IF cipher = "DES3" /\ Len(key) # 24
    THEN [ok |-> FALSE, cause |-> "Not a valid TDES key"]
    ELSE IF cipher = "DES3"
            /\ (\/ KeyBits(Slice(key, 0, 8)) = KeyBits(Slice(key, 8, 16))
                \/ KeyBits(Slice(key, 8, 16)) = KeyBits(Slice(key, 16, 24)))
    THEN [ok |-> FALSE, cause |-> "Triple DES key degenerates to single DES"]
    ELSE IF Len(iv) # block_size
    THEN [ok |-> FALSE, cause |-> "Incorrect IV length"]
    ELSE [ok |-> TRUE, name |-> cipher, key |-> key, iv |-> iv]

RECURSIVE cbc_encrypt(_, _, _)
\* CBC over the blocks of data (a multiple of block_size long), prev the
\* previous ciphertext block (the IV at first).
cbc_encrypt(cipher, prev, data) ==
    IF Len(data) = 0 THEN <<>>
    ELSE LET c == encrypt_block(cipher,
                      XorBlock(Slice(data, 0, block_size), prev)) \o <<>>
         IN  c \o cbc_encrypt(cipher, c, Slice(data, block_size, Len(data)))

RECURSIVE cbc_decrypt(_, _, _)
cbc_decrypt(cipher, prev, data) ==
    IF Len(data) = 0 THEN <<>>
    ELSE LET c == Slice(data, 0, block_size)
         IN  (XorBlock(decrypt_block(cipher, c), prev) \o <<>>)
             \o cbc_decrypt(cipher, c, Slice(data, block_size, Len(data)))

\* cipher.encrypt(data) and cipher.decrypt(data) in CBC mode.
cipher_encrypt(cipher, data) ==
    IF Len(data) % block_size # 0
    THEN [ok |-> FALSE,
          cause |-> "Data must be padded to 8 byte boundary in CBC mode"]
    ELSE [ok |-> TRUE, bytes |-> cbc_encrypt(cipher, cipher.iv, data)]

cipher_decrypt(cipher, data) ==
    IF Len(data) % block_size # 0
    THEN [ok |-> FALSE,
          cause |-> "Data must be padded to 8 byte boundary in CBC mode"]
    ELSE [ok |-> TRUE, bytes |-> cbc_decrypt(cipher, cipher.iv, data)]

\* Zero padding up to the block boundary, none for data that ends on one:
\* the variant of pad that can add nothing.
pad_zero(data, bs) ==
    data \o [i \in 1..((bs - (Len(data) % bs)) % bs) |-> 0]

\* Padding of zero bytes with the count in the last byte only (ANSI
\* X.923): the variant of pad whose padding bytes are not all the count.
pad_x923(data, bs) ==
    LET padding_len == bs - (Len(data) % bs)
    IN  data \o [i \in 1..padding_len |->
                    IF i = padding_len THEN padding_len ELSE 0]

\* Crypto.Util.Padding.pad(data, bs): PKCS#7.
pad(data, bs) ==
    LET padding_len == bs - (Len(data) % bs)
    IN  data \o [i \in 1..padding_len |-> padding_len]

\* Three variants of unpad: one that leaves the padding on, one that
\* takes zero-length input for unpadded data, one that strips as many
\* bytes as the last byte says without looking at them.
unpad_keep(data, bs) == [ok |-> TRUE, bytes |-> data]

unpad_empty_ok(data, bs) ==
    IF Len(data) = 0 THEN [ok |-> TRUE, bytes |-> data]
    ELSE LET padding_len == data[Len(data)]
         IN  IF \/ padding_len < 1 \/ padding_len > bs
                \/ padding_len > Len(data)
                \/ \E i \in 1..padding_len :
                      data[Len(data) - padding_len + i] # padding_len
             THEN [ok |-> FALSE, cause |-> "Padding is incorrect."]
             ELSE [ok |-> TRUE,
                   bytes |-> Slice(data, 0, Len(data) - padding_len)]

unpad_unchecked(data, bs) ==
    IF Len(data) = 0
    THEN [ok |-> FALSE, cause |-> "Zero-length input cannot be unpadded"]
    ELSE [ok |-> TRUE,
          bytes |-> Slice(data, 0,
                          IF data[Len(data)] > Len(data) THEN 0
                          ELSE Len(data) - data[Len(data)])]

\* Crypto.Util.Padding.unpad(data, bs): PKCS#7.
unpad(data, bs) ==
    IF Len(data) = 0
    THEN [ok |-> FALSE, cause |-> "Zero-length input cannot be unpadded"]
    ELSE IF Len(data) % bs # 0
    THEN [ok |-> FALSE, cause |-> "Input data is not padded"]
    ELSE LET padding_len == data[Len(data)]
         IN  IF padding_len < 1 \/ padding_len > bs \/ padding_len > Len(data)
             THEN [ok |-> FALSE, cause |-> "Padding is incorrect."]
             ELSE IF \E i \in 1..padding_len :
                         data[Len(data) - padding_len + i] # padding_len
             THEN [ok |-> FALSE, cause |-> "PKCS#7 padding is incorrect."]
             ELSE [ok |-> TRUE,
                   bytes |-> Slice(data, 0, Len(data) - padding_len)]

----------------------------------------------------------------------------
(* JasyptEncryptor._openssl_kdf                                            *)

RECURSIVE rehash(_, _, _)
\* md after `for _ in range(iterations): md = hash_algo.new(md).digest()`:
\* the digest applied n times to md (not at all for n <= 0).  The n
\* applications are split in two halves, and the first half is looked at
\* before the second starts, to keep the evaluation shallow; a digest is
\* never empty.
rehash(hash_algo, md, n) ==
    IF n <= 0 THEN md
    ELSE IF n = 1 THEN Digest(hash_algo, md)
    ELSE LET first == rehash(hash_algo, md, n \div 2)
         IN  IF first = <<>> THEN first
             ELSE rehash(hash_algo, first, n - (n \div 2))

\* Round input made of all the digests so far: the variant of round_data
\* that chains b''.join(m) instead of m[i - 1].
round_data_joined(m, password, salt) == Concat(m) \o password \o salt

\* Round input with one fixed byte in the place of the password: the
\* variant of round_data that derives the same key for every password.
round_data_unkeyed(m, password, salt) ==
    IF Len(m) = 0 THEN <<0>> \o salt ELSE m[Len(m)] \o <<0>> \o salt

\* The input of round i (i = len(m)): password + salt in round 0, else
\* m[i - 1] + password + salt.
round_data(m, password, salt) ==
    IF Len(m) = 0 THEN password \o salt
    ELSE m[Len(m)] \o password \o salt

RECURSIVE kdf_rounds(_, _, _, _, _, _)
\* The while loop: m is the list of the rounds' digests so far.
kdf_rounds(m, password, salt, size, hash_algo, iterations) ==
    IF Len(Concat(m)) >= size THEN m
    ELSE kdf_rounds(
            Append(m, rehash(hash_algo, round_data(m, password, salt),
                             iterations)),
            password, salt, size, hash_algo, iterations)

_openssl_kdf(password, salt, key_size, iv_size, hash_algo, iterations) ==
    LET m == kdf_rounds(<<>>, password, salt, key_size + iv_size,
                        hash_algo, iterations)
        ms == Concat(m)
    IN  [key |-> Slice(ms, 0, key_size),
         iv |-> Slice(ms, key_size, key_size + iv_size),
         rounds |-> Len(m)]

----------------------------------------------------------------------------
(* The class body: ALGORITHMS, the defaults, the inputs the model draws.   *)

\* The dict literal of the class body, in its order of insertion.
AlgorithmTable ==
    << [name |-> "PBEWithMD5AndDES", cipher |-> "DES", key_size |-> 8,
        iv_size |-> 8, hash_algo |-> "MD5", mode |-> "MODE_CBC"],
       [name |-> "PBEWithMD5AndTripleDES", cipher |-> "DES3", key_size |-> 24,
        iv_size |-> 8, hash_algo |-> "MD5", mode |-> "MODE_CBC"],
       [name |-> "PBEWithSHA1AndDESede", cipher |-> "DES3", key_size |-> 24,
        iv_size |-> 8, hash_algo |-> "SHA1", mode |-> "MODE_CBC"] >>

\* The last name of the registry: the variant of DEFAULT_ALGORITHM under
\* which a caller who names no algorithm gets triple DES.
LAST_ALGORITHM == "PBEWithSHA1AndDESede"

DEFAULT_ALGORITHM == "PBEWithMD5AndDES"

DEFAULT_ITERATIONS == 1000

\* The number of salt bytes encrypt draws and decrypt splits off.
SALT_SIZE == 8

\* name in table (a dict's `in`: exact, case-sensitive equality of keys)
Has(table, name) == \E i \in 1..Len(table) : table[i].name = name

\* A lookup that gives the first entry whatever the name: the variant of
\* Lookup under which every name means PBEWithMD5AndDES.
LookupFirst(table, name) == table[1]

\* table[name]
Lookup(table, name) ==
    table[CHOOSE i \in 1..Len(table) : table[i].name = name]

\* The passwords in use: "pw" and "Kéy".
K1 == <<112, 119>>
K2 == <<75, 233, 121>>

\* What a caller passes to the constructor ...
InstancePasswords == {None, PyStr(<<>>), PyStr(K1)}
InstanceAlgorithms ==
    {None, PyStr(""), PyStr("PBEWithMD5AndDES"),
     PyStr("PBEWithMD5AndTripleDES"), PyStr("PBEWithSHA1AndDESede"),
     PyStr("pbewithmd5anddes")}
IterationArgs == {None, PyInt(0), PyInt(-1), PyInt(1)}

\* ... and to one call of encrypt or decrypt.
CallPasswords == {None, PyStr(<<>>), PyStr(K2)}
CallAlgorithms ==
    {None, PyStr(""), PyStr("PBEWithMD5AndDES"),
     PyStr("PBEWithSHA1AndDESede"), PyStr("pbewithmd5anddes")}

\* ... and to encrypt_with_config, decrypt_with_config and the
\* module-level functions, with the passwords of CallPasswords.
ConfigAlgorithms ==
    {None, PyStr("PBEWithSHA1AndDESede"), PyStr("pbewithmd5anddes")}

\* The salts get_random_bytes(8) may return.
SaltOf(n) == [j \in 1..SALT_SIZE |-> (n * 37 + j * 11) % 256]
\* One more value of get_random_bytes(8).  Under this salt, the password
\* "Kéy" and 1000 iterations, the ciphertext that PBEWithMD5AndDES makes
\* of "€" decrypts under the key of PBEWithSHA1AndDESede to bytes that
\* end in valid padding and are valid UTF-8.
ChanceSalt == <<2, 221, 195, 120, 77, 59, 94, 62>>
Salts == {SaltOf(n) : n \in 1..NumSalts} \cup {ChanceSalt}

\* The plaintexts: the first n characters of a text that mixes characters
\* of 3, 4, 1 and 2 UTF-8 bytes; the first three fill one cipher block.
PlainChars == <<8364, 128512, 65, 233>>
PlainText(n) ==
    [i \in 1..n |-> PlainChars[((i - 1) % Len(PlainChars)) + 1]]
Plaintexts == {PlainText(n) : n \in 0..MaxPlainLen}

\* str.startswith and str.endswith.
startswith(text, prefix) ==
    Len(text) >= Len(prefix) /\ SubSeq(text, 1, Len(prefix)) = prefix
endswith(text, suffix) ==
    /\ Len(text) >= Len(suffix)
    /\ SubSeq(text, Len(text) - Len(suffix) + 1, Len(text)) = suffix

\* The texts 'ENC(' and ')'.
ENC_OPEN == <<69, 78, 67, 40>>
ENC_CLOSE == <<41>>

\* An extraction that takes off every ENC( ) around the text, not just
\* the outermost: the variant of extract_encrypted_text that unwraps
\* again what it has unwrapped.
RECURSIVE extract_innermost(_)
extract_innermost(config_value) ==
    IF startswith(config_value, ENC_OPEN) /\ endswith(config_value, ENC_CLOSE)
    THEN extract_innermost(Slice(config_value, 4, Len(config_value) - 1))
    ELSE config_value

\* Lines 286-289 of decrypt_config_value: config_value[4:-1] when the
\* value starts with 'ENC(' and ends with ')', else the value itself.
extract_encrypted_text(config_value) ==
    IF startswith(config_value, ENC_OPEN) /\ endswith(config_value, ENC_CLOSE)
    THEN Slice(config_value, 4, Len(config_value) - 1)
    ELSE config_value

\* Token text that no encrypt call produced: "", "AAAA" (three bytes),
\* "AAAAAAAAAAA=" (eight bytes), "abc" (a quad cut short), "é"
\* (not ASCII) and "!!!!" (no Base64 character at all).
ForeignTokens ==
    { <<>>, <<65, 65, 65, 65>>,
      <<65, 65, 65, 65, 65, 65, 65, 65, 65, 65, 65, 61>>,
      <<97, 98, 99>>, <<233>>, <<33, 33, 33, 33>> }

\* Configuration values that no encrypt_config_value call produced:
\* "ENC()", "ENC(", ")", "ENC(ENC(A))", "ENC(AAAA)", "ENC(AAAA" and
\* "AAAA)"; and what decrypt_config_value hands to decrypt for each.
ForeignConfigValues ==
    { ENC_OPEN \o ENC_CLOSE, ENC_OPEN, ENC_CLOSE,
      ENC_OPEN \o ENC_OPEN \o <<65>> \o ENC_CLOSE \o ENC_CLOSE,
      ENC_OPEN \o <<65, 65, 65, 65>> \o ENC_CLOSE,
      ENC_OPEN \o <<65, 65, 65, 65>>,
      <<65, 65, 65, 65>> \o ENC_CLOSE }
ForeignConfigTexts ==
    {extract_encrypted_text(v) : v \in ForeignConfigValues}

----------------------------------------------------------------------------
(* The key derivations the model asks for, tabulated once.                 *)

KdfPasswords == {utf8_encode(K1), utf8_encode(K2)}

KdfSalts ==
    Salts \cup { Slice(b64decode(t).bytes, 0, SALT_SIZE) :
                    t \in {u \in ForeignTokens \cup ForeignConfigTexts :
                              b64decode(u).ok} }

KdfIterations == {Or(i, PyInt(DEFAULT_ITERATIONS)).n : i \in IterationArgs}

KdfInputs ==
    {<<p, s, a, n>> : p \in KdfPasswords, s \in KdfSalts,
                      a \in 1..Len(AlgorithmTable), n \in KdfIterations}

KdfTable ==
    [x \in KdfInputs |->
        _openssl_kdf(x[1], x[2], AlgorithmTable[x[3]].key_size,
                     AlgorithmTable[x[3]].iv_size,
                     AlgorithmTable[x[3]].hash_algo, x[4])]

\* self._openssl_kdf(...) as encrypt and decrypt call it: the value of
\* _openssl_kdf, read from KdfTable where the table holds it.
derive(password, salt, config, iterations) ==
    IF /\ \E i \in 1..Len(AlgorithmTable) : AlgorithmTable[i] = config
       /\ password \in KdfPasswords /\ salt \in KdfSalts
       /\ iterations \in KdfIterations
    THEN KdfTable[<<password, salt,
                    CHOOSE i \in 1..Len(AlgorithmTable) :
                        AlgorithmTable[i] = config,
                    iterations>>]
    ELSE _openssl_kdf(password, salt, config.key_size, config.iv_size,
                      config.hash_algo, iterations)

----------------------------------------------------------------------------
(* JasyptEncryptor.__init__, encrypt, decrypt.                             *)
(*                                                                         *)
(* Each returns how the call ended (outcome), the library and helper calls *)
(* it made on the way, in order (steps), the iteration counts it ran the   *)
(* KDF with (kdf), what it computed, and, for a method, the encryptor as   *)
(* the call leaves it (instance).                                          *)

\* An encryptor that takes over the algorithm of the last call: the variant
\* of instance_after in which a call stores algo in self.algorithm.
instance_rebound(this, pwd, algo) == [this EXCEPT !.algorithm = algo]

\* An encryptor that keeps the password of the last call: the variant of
\* instance_after in which a call stores pwd in self.password.
instance_caching(this, pwd, algo) == [this EXCEPT !.password = pwd]

\* The encryptor as a call of encrypt or decrypt leaves it.  pwd and algo
\* (lines 137-138, 187-188) are local names, and no statement of either
\* method assigns to an attribute of self.
instance_after(this, pwd, algo) == this

\* A constructor without the check of line 76: the variant of __init__
\* that takes any algorithm name.
__init__unchecked(password, algorithm, iterations) ==
    [outcome |-> Returned(
        [password |-> password,
         algorithm |-> Or(algorithm, PyStr(DEFAULT_ALGORITHM)),
         iterations |-> Or(iterations, PyInt(DEFAULT_ITERATIONS))]),
     steps |-> <<>>, kdf |-> <<>>]

__init__(password, algorithm, iterations) ==
    LET this == [password |-> password,
                 algorithm |-> Or(algorithm, PyStr(DEFAULT_ALGORITHM)),
                 iterations |-> Or(iterations, PyInt(DEFAULT_ITERATIONS))]
    IN  IF ~Has(ALGORITHMS, this.algorithm.s)
        THEN [outcome |-> Raised("ValueError", "__init__:77", ""),
              steps |-> <<>>, kdf |-> <<>>]
        ELSE [outcome |-> Returned(this), steps |-> <<>>, kdf |-> <<>>]

encrypt(this, plain_text, password, algorithm, salt) ==
    LET pwd == Or(password, this.password)
        algo == Or(algorithm, this.algorithm)
    IN  [instance |-> instance_after(this, pwd, algo)] @@
        IF ~Truthy(pwd)
        THEN [outcome |-> Raised("ValueError", "encrypt:141", ""),
              steps |-> <<>>, kdf |-> <<>>]
        ELSE IF ~Has(ALGORITHMS, algo.s)
        THEN [outcome |-> Raised("ValueError", "encrypt:144", ""),
              steps |-> <<>>, kdf |-> <<>>]
        ELSE
        LET config == Lookup(ALGORITHMS, algo.s)
            kd == derive(utf8_encode(pwd.s), salt, config, this.iterations.n)
            cipher == new(config.cipher, kd.key, kd.iv)
        IN  IF ~cipher.ok
            THEN [outcome |-> Raised("ValueError", "encrypt:162", cipher.cause),
                  steps |-> <<"get_random_bytes", "_openssl_kdf", "new">>,
                  kdf |-> <<this.iterations.n>>, salt |-> salt]
            ELSE
            LET padded_data == pad(utf8_encode(plain_text), block_size)
                encrypted == cipher_encrypt(cipher, padded_data).bytes
                result == salt \o encrypted
            IN  [outcome |-> Returned(PyStr(b64encode(result))),
                 steps |-> <<"get_random_bytes", "_openssl_kdf", "new", "pad",
                             "encrypt", "b64encode">>,
                 kdf |-> <<this.iterations.n>>, salt |-> salt,
                 key |-> kd.key, iv |-> kd.iv,
                 padded_data |-> padded_data, encrypted |-> encrypted]

\* An except clause that tells the errors of the try block apart: the
\* variant of decrypt_failed that raises one kind for ciphertext that is
\* not whole blocks and another kind for the rest.
decrypt_failed_by_kind(cause, steps, kdf) ==
    [outcome |->
        Raised(IF cause = "Data must be padded to 8 byte boundary in CBC mode"
               THEN "MalformedTokenError" ELSE "DecryptionFailedError",
               "decrypt:226", cause),
     steps |-> steps, kdf |-> kdf]

\* An except clause that swallows the error: the variant of decrypt_failed
\* under which a failing decrypt returns the empty string.
decrypt_failed_quiet(cause, steps, kdf) ==
    [outcome |-> Returned(PyStr(<<>>)), steps |-> steps, kdf |-> kdf]

\* The except clause of decrypt: any error of the try block becomes the
\* same ValueError, with the error's message in its text.
decrypt_failed(cause, steps, kdf) ==
    [outcome |-> Raised("ValueError", "decrypt:226", cause),
     steps |-> steps, kdf |-> kdf]

decrypt(this, encrypted_text, password, algorithm) ==
    LET pwd == Or(password, this.password)
        algo == Or(algorithm, this.algorithm)
    IN  [instance |-> instance_after(this, pwd, algo)] @@
        IF ~Truthy(pwd)
        THEN [outcome |-> Raised("ValueError", "decrypt:191", ""),
              steps |-> <<>>, kdf |-> <<>>]
        ELSE IF ~Has(ALGORITHMS, algo.s)
        THEN [outcome |-> Raised("ValueError", "decrypt:194", ""),
              steps |-> <<>>, kdf |-> <<>>]
        ELSE
        LET config == Lookup(ALGORITHMS, algo.s)
            encrypted_bytes == b64decode(encrypted_text)
        IN  IF ~encrypted_bytes.ok
            THEN decrypt_failed(encrypted_bytes.cause, <<"b64decode">>, <<>>)
            ELSE
            LET salt == Slice(encrypted_bytes.bytes, 0, SALT_SIZE)
                ciphertext == Slice(encrypted_bytes.bytes, SALT_SIZE,
                                    Len(encrypted_bytes.bytes))
                kd == derive(utf8_encode(pwd.s), salt, config,
                             this.iterations.n)
                cipher == new(config.cipher, kd.key, kd.iv)
                its == <<this.iterations.n>>
                found == [salt |-> salt, ciphertext |-> ciphertext]
            IN  IF ~cipher.ok
                THEN decrypt_failed(cipher.cause,
                        <<"b64decode", "_openssl_kdf", "new">>, its) @@ found
                ELSE
                LET decrypted == cipher_decrypt(cipher, ciphertext)
                IN  IF ~decrypted.ok
                    THEN decrypt_failed(decrypted.cause,
                            <<"b64decode", "_openssl_kdf", "new", "decrypt">>,
                            its) @@ found
                    ELSE
                    LET unpadded == unpad(decrypted.bytes, block_size)
                        done == found @@ [decrypted |-> decrypted.bytes]
                    IN  IF ~unpadded.ok
                        THEN decrypt_failed(unpadded.cause,
                                <<"b64decode", "_openssl_kdf", "new",
                                  "decrypt", "unpad">>, its) @@ done
                        ELSE
                        LET text == utf8_decode(unpadded.bytes)
                            all == <<"b64decode", "_openssl_kdf", "new",
                                     "decrypt", "unpad", "decode">>
                        IN  IF ~text.ok
                            THEN decrypt_failed(
                                    "'utf-8' codec can't decode", all, its)
                                 @@ done
                            ELSE [outcome |-> Returned(PyStr(text.s)),
                                  steps |-> all, kdf |-> its] @@ done

\* An encrypt_config_value that leaves the ')' off: the variant that
\* returns "ENC(" and the token only.
encrypt_config_value_open(this, plain_text, salt) ==
    LET encrypted == encrypt(this, plain_text, None, None, salt)
    IN  IF ~encrypted.outcome.ok THEN encrypted
        ELSE [outcome |->
                 Returned(PyStr(ENC_OPEN \o encrypted.outcome.value.s)),
              token |-> encrypted.outcome.value.s] @@ encrypted

\* encryptor.encrypt_config_value(plain_text): the token of
\* self.encrypt(plain_text) inside "ENC(" and ")"; an error of encrypt
\* passes through.
encrypt_config_value(this, plain_text, salt) ==
    LET encrypted == encrypt(this, plain_text, None, None, salt)
    IN  IF ~encrypted.outcome.ok THEN encrypted
        ELSE [outcome |->
                 Returned(PyStr(ENC_OPEN \o encrypted.outcome.value.s
                                \o ENC_CLOSE)),
              token |-> encrypted.outcome.value.s] @@ encrypted

\* encryptor.decrypt_config_value(config_value)
decrypt_config_value(this, config_value) ==
    LET encrypted_text == extract_encrypted_text(config_value)
    IN  [encrypted_text |-> encrypted_text]
        @@ decrypt(this, encrypted_text, None, None)

\* JasyptEncryptor.encrypt_with_config and decrypt_with_config: a new
\* encryptor (`encryptor`, where the constructor returned one) and one call
\* on it.
encrypt_with_config(plain_text, password, algorithm, iterations, salt) ==
    LET encryptor == __init__(password, algorithm, iterations)
    IN  IF ~encryptor.outcome.ok THEN encryptor
        ELSE [encryptor |-> encryptor.outcome.value]
             @@ encrypt(encryptor.outcome.value, plain_text, None, None, salt)

decrypt_with_config(encrypted_text, password, algorithm, iterations) ==
    LET encryptor == __init__(password, algorithm, iterations)
    IN  IF ~encryptor.outcome.ok THEN encryptor
        ELSE [encryptor |-> encryptor.outcome.value]
             @@ decrypt(encryptor.outcome.value, encrypted_text, None, None)

\* An argument that the caller leaves out, so that the parameter's default
\* applies.
Omitted == [type |-> "omitted"]

\* A default of triple DES with SHA1: the variant of algorithm_default
\* under which a caller who names no algorithm gets the registry's last
\* profile.
algorithm_last(algorithm) ==
    IF algorithm = Omitted THEN PyStr(LAST_ALGORITHM) ELSE algorithm

\* The default of the parameter `algorithm` of the module-level functions
\* (lines 305, 320).
algorithm_default(algorithm) ==
    IF algorithm = Omitted THEN PyStr("PBEWithMD5AndDES") ELSE algorithm

\* The module-level functions encrypt(password, plain_text, algorithm) and
\* decrypt(password, encrypted_text, algorithm).
quick_encrypt(password, plain_text, algorithm, salt) ==
    encrypt_with_config(plain_text, password, algorithm_default(algorithm),
                        None, salt)

quick_decrypt(password, encrypted_text, algorithm) ==
    decrypt_with_config(encrypted_text, password,
                        algorithm_default(algorithm), None)

\* A list of the names in the opposite order: the variant of
\* get_supported_algorithms that does not keep the order of the dict.
names_reversed(table) ==
    [i \in 1..Len(table) |-> table[Len(table) + 1 - i].name]

\* JasyptEncryptor.get_supported_algorithms(): list(ALGORITHMS.keys()), a
\* new list of the keys in their order of insertion.
get_supported_algorithms(table) ==
    [i \in 1..Len(table) |-> table[i].name]

----------------------------------------------------------------------------
(* The caller.  It constructs an encryptor, calls encrypt and decrypt on   *)
(* it one call after the other, and may hand the token a call returned,    *)
(* as it is or damaged, to decrypt.  `call` is the call that has just      *)
(* ended; the caller is done with it at Return.                            *)

Idle == [op |-> "idle"]

\* The ways a token is damaged before it is handed to decrypt: a character
\* outside the Base64 alphabet ('!') put after its first quad, its last
\* quad cut off, the ciphertext byte before the last raised by one.
Tampers == {"junk", "cut", "flip"}

Tamper(token, kind) ==
    IF kind = "junk"
    THEN SubSeq(token, 1, 4) \o <<33>> \o SubSeq(token, 5, Len(token))
    ELSE IF kind = "cut" THEN SubSeq(token, 1, Len(token) - 4)
    ELSE LET b == b64decode(token).bytes
         IN  b64encode([b EXCEPT ![Len(b) - 1] = (@ + 1) % 256])

\* encryptor = JasyptEncryptor(password, algorithm, iterations)
Construct ==
    /\ call = Idle
    /\ \E password \in InstancePasswords, algorithm \in InstanceAlgorithms,
          iterations \in IterationArgs :
          LET r == __init__(password, algorithm, iterations)
          IN  /\ self' = IF r.outcome.ok THEN r.outcome.value ELSE self
              /\ call' = [op |-> "__init__", password |-> password,
                          algorithm |-> algorithm,
                          iterations |-> iterations] @@ r
    /\ UNCHANGED <<ALGORITHMS, threads>>

\* encryptor.encrypt(plain_text, password, algorithm)
Encrypt ==
    /\ call = Idle
    /\ self # None
    /\ \E plain_text \in Plaintexts, password \in CallPasswords,
          algorithm \in CallAlgorithms, salt \in Salts :
          call' = [op |-> "encrypt", plain_text |-> plain_text,
                   password |-> password, algorithm |-> algorithm,
                   earlier |-> <<>>]
                  @@ encrypt(self, plain_text, password, algorithm, salt)
    /\ self' = call'.instance
    /\ UNCHANGED <<ALGORITHMS, threads>>

\* The same encrypt call once more, after it returned a token.
EncryptAgain ==
    /\ call.op = "encrypt"
    /\ call.outcome.ok
    /\ call.earlier = <<>>
    /\ \E salt \in Salts :
          call' = [op |-> "encrypt", plain_text |-> call.plain_text,
                   password |-> call.password, algorithm |-> call.algorithm,
                   earlier |-> <<[token |-> call.outcome.value.s,
                                  salt |-> call.salt]>>]
                  @@ encrypt(self, call.plain_text, call.password,
                             call.algorithm, salt)
    /\ self' = call'.instance
    /\ UNCHANGED <<ALGORITHMS, threads>>

\* encryptor.decrypt(token, password, algorithm) on the token that the
\* encrypt call returned.
Decrypt ==
    /\ call.op = "encrypt"
    /\ call.outcome.ok
    /\ call.earlier = <<>>
    /\ \E password \in CallPasswords, algorithm \in CallAlgorithms :
          call' = [op |-> "decrypt", encrypted_text |-> call.outcome.value.s,
                   password |-> password, algorithm |-> algorithm,
                   origin |-> call, tamper |-> "none"]
                  @@ decrypt(self, call.outcome.value.s, password, algorithm)
    /\ self' = call'.instance
    /\ UNCHANGED <<ALGORITHMS, threads>>

\* decrypt with the arguments of the encrypt call, on its token damaged.
DecryptTampered ==
    /\ call.op = "encrypt"
    /\ call.outcome.ok
    /\ call.earlier = <<>>
    /\ \E kind \in Tampers :
          LET text == Tamper(call.outcome.value.s, kind)
          IN  call' = [op |-> "decrypt", encrypted_text |-> text,
                       password |-> call.password,
                       algorithm |-> call.algorithm,
                       origin |-> call, tamper |-> kind]
                      @@ decrypt(self, text, call.password, call.algorithm)
    /\ self' = call'.instance
    /\ UNCHANGED <<ALGORITHMS, threads>>

\* decrypt on token text that comes from elsewhere.
DecryptForeign ==
    /\ call = Idle
    /\ self # None
    /\ \E text \in ForeignTokens, password \in CallPasswords,
          algorithm \in CallAlgorithms :
          call' = [op |-> "decrypt", encrypted_text |-> text,
                   password |-> password, algorithm |-> algorithm,
                   origin |-> Idle, tamper |-> "foreign"]
                  @@ decrypt(self, text, password, algorithm)
    /\ self' = call'.instance
    /\ UNCHANGED <<ALGORITHMS, threads>>

\* encryptor.encrypt_config_value(plain_text)
EncryptConfigValue ==
    /\ call = Idle
    /\ self # None
    /\ \E plain_text \in Plaintexts, salt \in Salts :
          call' = [op |-> "encrypt_config_value", plain_text |-> plain_text]
                  @@ encrypt_config_value(self, plain_text, salt)
    /\ self' = call'.instance
    /\ UNCHANGED <<ALGORITHMS, threads>>

\* The forms in which the value that encrypt_config_value returned comes
\* back to decrypt_config_value: as it is, the bare token, the bare token
\* with ')' after it.
Forms == {"wrapped", "bare", "tail"}

FormOf(c, form) ==
    IF form = "wrapped" THEN c.outcome.value.s
    ELSE IF form = "bare" THEN c.token
    ELSE c.token \o ENC_CLOSE

\* encryptor.decrypt_config_value(config_value) on the value that the
\* encrypt_config_value call returned.
DecryptConfigValue ==
    /\ call.op = "encrypt_config_value"
    /\ call.outcome.ok
    /\ \E form \in Forms :
          call' = [op |-> "decrypt_config_value",
                   config_value |-> FormOf(call, form),
                   origin |-> call, form |-> form]
                  @@ decrypt_config_value(self, FormOf(call, form))
    /\ self' = call'.instance
    /\ UNCHANGED <<ALGORITHMS, threads>>

\* decrypt_config_value on a value that comes from elsewhere.
DecryptForeignConfigValue ==
    /\ call = Idle
    /\ self # None
    /\ \E config_value \in ForeignConfigValues :
          call' = [op |-> "decrypt_config_value",
                   config_value |-> config_value,
                   origin |-> Idle, form |-> "foreign"]
                  @@ decrypt_config_value(self, config_value)
    /\ self' = call'.instance
    /\ UNCHANGED <<ALGORITHMS, threads>>

\* JasyptEncryptor.encrypt_with_config(plain_text, password, algorithm,
\* iterations)
EncryptWithConfig ==
    /\ call = Idle
    /\ \E plain_text \in Plaintexts, password \in CallPasswords,
          algorithm \in ConfigAlgorithms, iterations \in IterationArgs,
          salt \in Salts :
          call' = [op |-> "encrypt_with_config", plain_text |-> plain_text,
                   password |-> password, algorithm |-> algorithm,
                   iterations |-> iterations]
                  @@ encrypt_with_config(plain_text, password, algorithm,
                                         iterations, salt)
    /\ UNCHANGED <<ALGORITHMS, self, threads>>

\* JasyptEncryptor.decrypt_with_config(token, password, algorithm,
\* iterations) with the arguments of the encrypt_with_config call, on its
\* token.
DecryptWithConfig ==
    /\ call.op = "encrypt_with_config"
    /\ call.outcome.ok
    /\ call' = [op |-> "decrypt_with_config",
                encrypted_text |-> call.outcome.value.s,
                password |-> call.password, algorithm |-> call.algorithm,
                iterations |-> call.iterations, origin |-> call]
               @@ decrypt_with_config(call.outcome.value.s, call.password,
                                      call.algorithm, call.iterations)
    /\ UNCHANGED <<ALGORITHMS, self, threads>>

\* encrypt(password, plain_text) and encrypt(password, plain_text,
\* algorithm), the module-level function.
QuickEncrypt ==
    /\ call = Idle
    /\ \E plain_text \in Plaintexts, password \in CallPasswords,
          algorithm \in ConfigAlgorithms \cup {Omitted}, salt \in Salts :
          call' = [op |-> "quick_encrypt", plain_text |-> plain_text,
                   password |-> password, algorithm |-> algorithm]
                  @@ quick_encrypt(password, plain_text, algorithm, salt)
    /\ UNCHANGED <<ALGORITHMS, self, threads>>

\* decrypt(password, token) and decrypt(password, token, algorithm), the
\* module-level function, with the arguments of the encrypt call.
QuickDecrypt ==
    /\ call.op = "quick_encrypt"
    /\ call.outcome.ok
    /\ call' = [op |-> "quick_decrypt",
                encrypted_text |-> call.outcome.value.s,
                password |-> call.password, algorithm |-> call.algorithm,
                origin |-> call]
               @@ quick_decrypt(call.password, call.outcome.value.s,
                                call.algorithm)
    /\ UNCHANGED <<ALGORITHMS, self, threads>>

\* JasyptEncryptor.get_supported_algorithms()
GetSupportedAlgorithms ==
    /\ call = Idle
    /\ call' = [op |-> "get_supported_algorithms",
                outcome |-> Returned(get_supported_algorithms(ALGORITHMS)),
                steps |-> <<>>, kdf |-> <<>>]
    /\ UNCHANGED <<ALGORITHMS, self, threads>>

Return ==
    /\ call # Idle
    /\ call' = Idle
    /\ UNCHANGED <<ALGORITHMS, self, threads>>

----------------------------------------------------------------------------
\* The threads, and a thread that is in no call.
Threads == {1, 2}
Resting == [pc |-> "rest"]

Init ==
    /\ ALGORITHMS = AlgorithmTable
    /\ self = None
    /\ call = Idle
    /\ threads = [t \in Threads |-> Resting]

Next ==
    \/ Construct
    \/ Encrypt
    \/ EncryptAgain
    \/ Decrypt
    \/ DecryptTampered
    \/ DecryptForeign
    \/ EncryptConfigValue
    \/ DecryptConfigValue
    \/ DecryptForeignConfigValue
    \/ EncryptWithConfig
    \/ DecryptWithConfig
    \/ QuickEncrypt
    \/ QuickDecrypt
    \/ GetSupportedAlgorithms
    \/ Return

Spec == Init /\ [][Next]_vars

----------------------------------------------------------------------------
(* Threads.  Several threads call encrypt and decrypt at the same time,    *)
(* each on the encryptor they all share (`self`) or on one of its own.  A  *)
(* call is a sequence of steps, and the steps of different threads         *)
(* interleave:                                                             *)
(*   "pwd"   pwd = password or self.password             (lines 137, 187)  *)
(*   "algo"  algo = algorithm or self.algorithm          (lines 138, 188)  *)
(*   "run"   the rest of the method, which reads self.iterations and       *)
(*           ALGORITHMS and works on local names    (lines 140-170, 190-)  *)
(* A thread's frame keeps the arguments, the local names pwd and algo, the *)
(* encryptor as it was when the call began (before), and the outcome.      *)

\* The encryptor the threads share, and the encryptor a thread makes for
\* itself.
SharedEncryptors ==
    {__init__(PyStr(K1), None, None).outcome.value,
     __init__(PyStr(K1), PyStr("PBEWithMD5AndTripleDES"),
              PyInt(1)).outcome.value}
OwnEncryptors ==
    {__init__(None, PyStr("PBEWithSHA1AndDESede"), None).outcome.value}

\* The arguments of the calls of the threads.
ThreadPasswords == {None, PyStr(K2)}
ThreadAlgorithms == {None, PyStr("PBEWithSHA1AndDESede")}
ThreadSalts == {SaltOf(1), SaltOf(2)}

\* The encryptor that the call of thread t works on.
EncryptorOf(t) ==
    IF threads[t].this = "own" THEN threads[t].own ELSE self

\* The encryptor of thread t becomes e.
Store(t, e, frame) ==
    IF threads[t].this = "own"
    THEN /\ threads' = [threads EXCEPT ![t] = [own |-> e] @@ frame]
         /\ self' = self
    ELSE /\ threads' = [threads EXCEPT ![t] = frame]
         /\ self' = e

ThreadInit ==
    /\ ALGORITHMS = AlgorithmTable
    /\ self \in SharedEncryptors
    /\ call = Idle
    /\ threads = [t \in Threads |-> Resting]

\* A thread calls encryptor.encrypt(plain_text, password, algorithm).
ThreadEncrypt ==
    \E t \in Threads, this \in {"shared", "own"}, own \in OwnEncryptors,
       password \in ThreadPasswords, algorithm \in ThreadAlgorithms,
       salt \in ThreadSalts :
       /\ threads[t].pc = "rest"
       /\ threads' = [threads EXCEPT ![t] =
             [pc |-> "pwd", op |-> "encrypt", this |-> this, own |-> own,
              before |-> IF this = "own" THEN own ELSE self,
              plain_text |-> PlainText(2), password |-> password,
              algorithm |-> algorithm, salt |-> salt]]
       /\ UNCHANGED <<ALGORITHMS, self, call>>

\* A thread calls encryptor.decrypt on the token its encrypt call
\* returned, with the same arguments and on the same encryptor.
ThreadDecrypt ==
    \E t \in Threads :
       /\ threads[t].pc = "done"
       /\ threads[t].op = "encrypt"
       /\ threads[t].outcome.ok
       /\ threads' = [threads EXCEPT ![t] =
             [pc |-> "pwd", op |-> "decrypt", this |-> threads[t].this,
              own |-> threads[t].own, before |-> EncryptorOf(t),
              encrypted_text |-> threads[t].outcome.value.s,
              password |-> threads[t].password,
              algorithm |-> threads[t].algorithm]]
       /\ UNCHANGED <<ALGORITHMS, self, call>>

\* pwd = password or self.password
ThreadPassword ==
    \E t \in Threads :
       /\ threads[t].pc = "pwd"
       /\ threads' = [threads EXCEPT ![t] =
             [pc |-> "algo",
              pwd |-> Or(threads[t].password, EncryptorOf(t).password)]
             @@ threads[t]]
       /\ UNCHANGED <<ALGORITHMS, self, call>>

\* algo = algorithm or self.algorithm
ThreadAlgorithm ==
    \E t \in Threads :
       /\ threads[t].pc = "algo"
       /\ threads' = [threads EXCEPT ![t] =
             [pc |-> "run",
              algo |-> Or(threads[t].algorithm, EncryptorOf(t).algorithm)]
             @@ threads[t]]
       /\ UNCHANGED <<ALGORITHMS, self, call>>

\* The rest of the method, with the local names pwd and algo and with
\* self.iterations as it is now.
ThreadRun ==
    \E t \in Threads :
       /\ threads[t].pc = "run"
       /\ LET f == threads[t]
              this == [password |-> f.pwd, algorithm |-> f.algo,
                       iterations |-> EncryptorOf(t).iterations]
              done == IF f.op = "encrypt"
                      THEN encrypt(this, f.plain_text, f.pwd, f.algo, f.salt)
                      ELSE decrypt(this, f.encrypted_text, f.pwd, f.algo)
          IN  Store(t, instance_after(EncryptorOf(t), f.pwd, f.algo),
                    [pc |-> "done", outcome |-> done.outcome] @@ f)
       /\ UNCHANGED <<ALGORITHMS, call>>

\* The caller of the thread has the result.
ThreadReturn ==
    \E t \in Threads :
       /\ threads[t].pc = "done"
       /\ threads' = [threads EXCEPT ![t] = Resting]
       /\ UNCHANGED <<ALGORITHMS, self, call>>

ThreadNext ==
    \/ ThreadEncrypt
    \/ ThreadDecrypt
    \/ ThreadPassword
    \/ ThreadAlgorithm
    \/ ThreadRun
    \/ ThreadReturn

ThreadSpec == ThreadInit /\ [][ThreadNext]_vars

----------------------------------------------------------------------------
(* _openssl_kdf, statement by statement.  `call` is the frame of one call  *)
(* of the static method: its arguments, its local names m, i, data and md, *)
(* the place it is at (pc), the number of passes the for loop has made     *)
(* (n), and what it has done so far: the data of every round (datas) and   *)
(* the arguments of every call of hash_algo.new, round by round (hashed).  *)

\* The most rounds the while loop is followed for.
MaxRounds == 4

\* The arguments of the calls: passwords and salts (the empty ones too),
\* the sizes and hash modules of the three profiles and sizes that take
\* three rounds of MD5, iteration counts.
KdfCallPasswords == {utf8_encode(K1), <<>>}
KdfCallSalts == {SaltOf(1), <<>>}
KdfCallSizes ==
    {<<AlgorithmTable[a].key_size, AlgorithmTable[a].iv_size,
       AlgorithmTable[a].hash_algo>> : a \in 1..Len(AlgorithmTable)}
    \cup {<<40, 8, "MD5">>}
KdfCallIterations == {0, 1, 2, 3}

\* The number of passes of `for _ in range(iterations)`, one less: the
\* variant of range_len that stops the loop one pass early.
range_len_short(iterations) ==
    IF iterations > 1 THEN iterations - 1 ELSE 0

\* len(range(iterations)): the number of passes of the for loop.
range_len(iterations) == IF iterations > 0 THEN iterations ELSE 0

\* A while condition that also holds when m is just long enough: the
\* variant of more_rounds that runs one more round then.
more_rounds_inclusive(m, key_size, iv_size) ==
    Len(Concat(m)) <= key_size + iv_size

\* len(b''.join(m)) < (key_size + iv_size)
more_rounds(m, key_size, iv_size) == Len(Concat(m)) < key_size + iv_size

KdfInit ==
    /\ ALGORITHMS = AlgorithmTable
    /\ self = None
    /\ threads = [t \in Threads |-> Resting]
    /\ \E password \in KdfCallPasswords, salt \in KdfCallSalts,
          size \in KdfCallSizes, iterations \in KdfCallIterations :
          call = [op |-> "_openssl_kdf", pc |-> "while",
                  password |-> password, salt |-> salt,
                  key_size |-> size[1], iv_size |-> size[2],
                  hash_algo |-> size[3], iterations |-> iterations,
                  m |-> <<>>, i |-> 0, data |-> <<>>, md |-> <<>>, n |-> 0,
                  datas |-> <<>>, hashed |-> <<>>]

\* The while condition holds: data of the round, md = data.
KdfRound ==
    /\ call.op = "_openssl_kdf"
    /\ call.pc = "while"
    /\ more_rounds(call.m, call.key_size, call.iv_size)
    /\ call.i < MaxRounds
    /\ LET data == IF call.i = 0 THEN call.password \o call.salt
                   ELSE round_data(call.m, call.password, call.salt)
       IN  call' = [call EXCEPT !.pc = "for", !.data = data, !.md = data,
                                !.n = 0,
                                !.datas = Append(@, data),
                                !.hashed = Append(@, <<>>)]
    /\ UNCHANGED <<ALGORITHMS, self, threads>>

\* One pass of the for loop: md = hash_algo.new(md).digest()
KdfHash ==
    /\ call.op = "_openssl_kdf"
    /\ call.pc = "for"
    /\ call.n < range_len(call.iterations)
    /\ call' = [call EXCEPT !.md = hash_digest(call.hash_algo, call.md),
                            !.n = @ + 1,
                            !.hashed[Len(call.hashed)] = Append(@, call.md)]
    /\ UNCHANGED <<ALGORITHMS, self, threads>>

\* The for loop is over: m.append(md); i += 1
KdfAppend ==
    /\ call.op = "_openssl_kdf"
    /\ call.pc = "for"
    /\ call.n >= range_len(call.iterations)
    /\ call' = [call EXCEPT !.pc = "while", !.m = Append(@, call.md),
                            !.i = @ + 1]
    /\ UNCHANGED <<ALGORITHMS, self, threads>>

\* The while condition fails: ms, key, iv, return.
KdfReturn ==
    /\ call.op = "_openssl_kdf"
    /\ call.pc = "while"
    /\ ~more_rounds(call.m, call.key_size, call.iv_size)
    /\ LET ms == Concat(call.m)
       IN  call' = [pc |-> "returned", ms |-> ms,
                    key |-> Slice(ms, 0, call.key_size),
                    iv |-> Slice(ms, call.key_size,
                                 call.key_size + call.iv_size)] @@ call
    /\ UNCHANGED <<ALGORITHMS, self, threads>>

KdfNext ==
    \/ KdfRound
    \/ KdfHash
    \/ KdfAppend
    \/ KdfReturn

KdfSpec == KdfInit /\ [][KdfNext]_vars

\* The call goes on while it has a statement to execute.
KdfLive == KdfSpec /\ WF_vars(KdfNext)

----------------------------------------------------------------------------
(* retry_on_failure (src/ai_service.py).  `call` is the frame of one call  *)
(* of the wrapper that the decorator puts around func: the arguments of    *)
(* the decorator, the local names attempt, current_delay and               *)
(* last_exception, the place it is at (pc), and what it has done so far:   *)
(* how every call of func ended (calls) and the argument of every          *)
(* time.sleep (sleeps), in order.                                          *)

\* The largest max_retries.
MaxRetries == 3

\* The arguments of the decorator: max_retries (0 too), delay and backoff
\* (seconds and a factor, not negative).
RetryCounts == 0..MaxRetries
RetryDelays == {0, 1, 2}
RetryBackoffs == {1, 2, 3}

\* How a call of func ends: it returns a value, it raises an exception
\* that `except Exception` catches, or it raises one that the clause does
\* not catch (a BaseException such as KeyboardInterrupt).  The value and
\* the exception are new objects of the call, told apart by its number.
FuncResults(number) ==
    {[kind |-> "return", value |-> <<"value", number>>],
     [kind |-> "Exception", e |-> <<"Exception", number>>],
     [kind |-> "BaseException", e |-> <<"BaseException", number>>]}

\* One attempt more than range(max_retries) has: the variant of
\* more_attempts that calls func max_retries + 1 times.
more_attempts_inclusive(attempt, max_retries) == attempt <= max_retries

\* for attempt in range(max_retries): attempt is in the range.
more_attempts(attempt, max_retries) == attempt < max_retries

RetryInit ==
    /\ ALGORITHMS = AlgorithmTable
    /\ self = None
    /\ threads = [t \in Threads |-> Resting]
    /\ \E max_retries \in RetryCounts, delay \in RetryDelays,
          backoff \in RetryBackoffs :
          call = [op |-> "wrapper", pc |-> "for",
                  max_retries |-> max_retries, delay |-> delay,
                  backoff |-> backoff, attempt |-> 0,
                  last_exception |-> None, current_delay |-> delay,
                  calls |-> <<>>, sleeps |-> <<>>]

\* The next attempt: return func(*args, **kwargs), or the exception of
\* func, caught (last_exception = e) or not.
RetryAttempt ==
    /\ call.op = "wrapper"
    /\ call.pc = "for"
    /\ more_attempts(call.attempt, call.max_retries)
    /\ \E result \in FuncResults(Len(call.calls) + 1) :
          call' = IF result.kind = "return"
                  THEN [pc |-> "returned",
                        calls |-> Append(call.calls, result),
                        outcome |-> Returned(result.value)] @@ call
                  ELSE IF result.kind = "Exception"
                  THEN [call EXCEPT !.pc = "except",
                                    !.calls = Append(@, result),
                                    !.last_exception = result.e]
                  ELSE [pc |-> "raised",
                        calls |-> Append(call.calls, result),
                        outcome |-> Raised("BaseException", "func",
                                           result.e)] @@ call
    /\ UNCHANGED <<ALGORITHMS, self, threads>>

\* attempt < max_retries - 1: time.sleep(current_delay);
\* current_delay *= backoff; then the next pass of the for loop.
RetrySleep ==
    /\ call.op = "wrapper"
    /\ call.pc = "except"
    /\ call.attempt < call.max_retries - 1
    /\ call' = [call EXCEPT !.pc = "for",
                            !.sleeps = Append(@, call.current_delay),
                            !.current_delay = @ * call.backoff,
                            !.attempt = @ + 1]
    /\ UNCHANGED <<ALGORITHMS, self, threads>>

\* else: logger.error(...); then the for loop is over.
RetryGiveUp ==
    /\ call.op = "wrapper"
    /\ call.pc = "except"
    /\ ~(call.attempt < call.max_retries - 1)
    /\ call' = [call EXCEPT !.pc = "for", !.attempt = @ + 1]
    /\ UNCHANGED <<ALGORITHMS, self, threads>>

\* After the for loop: raise last_exception (raise None is a TypeError).
RetryRaise ==
    /\ call.op = "wrapper"
    /\ call.pc = "for"
    /\ ~more_attempts(call.attempt, call.max_retries)
    /\ call' = [pc |-> "raised",
                outcome |-> IF call.last_exception = None
                            THEN Raised("TypeError", "wrapper:37", None)
                            ELSE Raised("Exception", "wrapper:37",
                                        call.last_exception)] @@ call
    /\ UNCHANGED <<ALGORITHMS, self, threads>>

RetryNext ==
    \/ RetryAttempt
    \/ RetrySleep
    \/ RetryGiveUp
    \/ RetryRaise

RetrySpec == RetryInit /\ [][RetryNext]_vars


----------------------------------------------------------------------------
(* The first test of the __main__ block (lines 341-355): the module-level  *)
(* decrypt on a token that the Java library made, with the library's own   *)
(* MD5 and DES in the registry.  `call` is the frame of that call up to    *)
(* the key derivation, the frame of _openssl_kdf (which keeps its caller's *)
(* frame in `caller`) while the key is derived, statement by statement,    *)
(* and the caller's frame again from cipher.new to the end.                *)

\* The registry with the library's DES and MD5 in the profile the test
\* uses; the test reaches no other profile.
LibraryTable ==
    << [AlgorithmTable[1] EXCEPT !.cipher = "Crypto.Cipher.DES",
                                 !.hash_algo = "Crypto.Hash.MD5"],
       AlgorithmTable[2], AlgorithmTable[3] >>

\* 'X7P3L9Q2' and '32yI5/lZjpE3byA/wvrPfw==' (lines 345-346).
java_password == PyStr(<<88, 55, 80, 51, 76, 57, 81, 50>>)

java_encrypted ==
    PyStr(<<51, 50, 121, 73, 53, 47, 108, 90, 106, 112, 69, 51,
            98, 121, 65, 47, 119, 118, 114, 80, 102, 119, 61, 61>>)

VectorInit ==
    /\ ALGORITHMS = LibraryTable
    /\ self = None
    /\ threads = [t \in Threads |-> Resting]
    /\ call = Idle

\* decrypt(java_password, java_encrypted), or the same call with the
\* password in lower case, down to the call of _openssl_kdf: the default algorithm, the encryptor of
\* decrypt_with_config, the checks of decrypt, b64decode, salt and
\* ciphertext.
VectorCall ==
    /\ call = Idle
    /\ \E password \in {java_password,
                        PyStr(<<120, 55, 112, 51, 108, 57, 113, 50>>)} :
          LET args == [op |-> "quick_decrypt", password |-> password,
                       encrypted_text |-> java_encrypted.s,
                       algorithm |-> Omitted]
              encryptor == __init__(password, algorithm_default(Omitted),
                                    None)
          IN  IF ~encryptor.outcome.ok
              THEN call' = [pc |-> "done"] @@ encryptor @@ args
              ELSE
              LET this == encryptor.outcome.value
                  pwd == Or(None, this.password)
                  algo == Or(None, this.algorithm)
                  made == [encryptor |-> this] @@ args
              IN  IF ~Truthy(pwd)
                  THEN call' = [pc |-> "done",
                                outcome |-> Raised("ValueError",
                                                   "decrypt:191", ""),
                                steps |-> <<>>, kdf |-> <<>>] @@ made
                  ELSE IF ~Has(ALGORITHMS, algo.s)
                  THEN call' = [pc |-> "done",
                                outcome |-> Raised("ValueError",
                                                   "decrypt:194", ""),
                                steps |-> <<>>, kdf |-> <<>>] @@ made
                  ELSE
                  LET config == Lookup(ALGORITHMS, algo.s)
                      encrypted_bytes == b64decode(java_encrypted.s)
                  IN  IF ~encrypted_bytes.ok
                      THEN call' = [pc |-> "done"]
                                   @@ decrypt_failed(encrypted_bytes.cause,
                                                     <<"b64decode">>, <<>>)
                                   @@ made
                      ELSE call' =
                             [op |-> "_openssl_kdf", pc |-> "while",
                              password |-> utf8_encode(pwd.s),
                              salt |-> Slice(encrypted_bytes.bytes, 0,
                                             SALT_SIZE),
                              key_size |-> config.key_size,
                              iv_size |-> config.iv_size,
                              hash_algo |-> config.hash_algo,
                              iterations |-> this.iterations.n,
                              m |-> <<>>, i |-> 0, data |-> <<>>,
                              md |-> <<>>, n |-> 0, datas |-> <<>>,
                              hashed |-> <<>>,
                              caller |->
                                [pc |-> "new", config |-> config,
                                 encrypted_bytes |-> encrypted_bytes.bytes,
                                 salt |-> Slice(encrypted_bytes.bytes, 0,
                                                SALT_SIZE),
                                 ciphertext |->
                                    Slice(encrypted_bytes.bytes, SALT_SIZE,
                                          Len(encrypted_bytes.bytes))]
                                @@ made]
    /\ UNCHANGED <<ALGORITHMS, self, threads>>

\* key, iv = the result of _openssl_kdf; cipher = config['cipher'].new(...);
\* decrypted = cipher.decrypt(ciphertext).
VectorCipher ==
    /\ call.op = "_openssl_kdf"
    /\ call.pc = "returned"
    /\ "caller" \in DOMAIN call
    /\ LET frame == [key |-> call.key, iv |-> call.iv, rounds |-> call.i,
                     passes |-> call.n] @@ call.caller
           its == <<call.iterations>>
           cipher == new(frame.config.cipher, call.key, call.iv)
       IN  IF ~cipher.ok
           THEN call' = [pc |-> "done"]
                        @@ decrypt_failed(cipher.cause,
                              <<"b64decode", "_openssl_kdf", "new">>, its)
                        @@ frame
           ELSE
           LET decrypted == cipher_decrypt(cipher, frame.ciphertext)
           IN  IF ~decrypted.ok
               THEN call' = [pc |-> "done"]
                            @@ decrypt_failed(decrypted.cause,
                                  <<"b64decode", "_openssl_kdf", "new",
                                    "decrypt">>, its)
                            @@ frame
               ELSE call' = [pc |-> "unpad", decrypted |-> decrypted.bytes,
                             kdf |-> its] @@ frame
    /\ UNCHANGED <<ALGORITHMS, self, threads>>

\* unpadded = unpad(decrypted, cipher.block_size);
\* return unpadded.decode('utf-8'), or the ValueError of the except
\* clause.
VectorUnpad ==
    /\ call.op = "quick_decrypt"
    /\ call.pc = "unpad"
    /\ LET unpadded == unpad(call.decrypted, block_size)
       IN  IF ~unpadded.ok
           THEN call' = [pc |-> "done"]
                        @@ decrypt_failed(unpadded.cause,
                              <<"b64decode", "_openssl_kdf", "new",
                                "decrypt", "unpad">>, call.kdf)
                        @@ call
           ELSE
           LET text == utf8_decode(unpadded.bytes)
               all == <<"b64decode", "_openssl_kdf", "new", "decrypt",
                        "unpad", "decode">>
           IN  IF ~text.ok
               THEN call' = [pc |-> "done"]
                            @@ decrypt_failed("'utf-8' codec can't decode",
                                              all, call.kdf)
                            @@ call
               ELSE call' = [pc |-> "done",
                             outcome |-> Returned(PyStr(text.s)),
                             steps |-> all] @@ call
    /\ UNCHANGED <<ALGORITHMS, self, threads>>

VectorNext ==
    \/ VectorCall
    \/ KdfRound
    \/ KdfHash
    \/ KdfAppend
    \/ KdfReturn
    \/ VectorCipher
    \/ VectorUnpad

VectorSpec == VectorInit /\ [][VectorNext]_vars

----------------------------------------------------------------------------
(* Properties of encrypt and decrypt.                                      *)

\* The password and the algorithm that a call of encrypt or decrypt works
\* with, by lines 137-138 and 187-188.
PasswordOf(c) == Or(c.password, self.password)
AlgorithmOf(c) == Or(c.algorithm, self.algorithm)

\* C1 (round trip): decrypt, applied to the token that encrypt returned
\* for a non-empty plaintext, with the password and the algorithm that
\* encrypt worked with and on the same encryptor (so with the same
\* iteration count), returns exactly that plaintext, whichever salt encrypt
\* drew.
RoundTrip ==
    ( /\ call.op = "decrypt"
      /\ call.tamper = "none"
      /\ call.origin.plain_text # <<>>
      /\ PasswordOf(call) = PasswordOf(call.origin)
      /\ AlgorithmOf(call) = AlgorithmOf(call.origin) )
    => call.outcome = Returned(PyStr(call.origin.plain_text))

\* A round trip of a two-block plaintext under Triple DES with 1000
\* iterations and a password given to both calls.
RoundTripDone ==
    /\ call.op = "decrypt"
    /\ call.tamper = "none"
    /\ call.origin.plain_text = PlainText(3)
    /\ Len(call.origin.encrypted) = 2 * block_size
    /\ call.password = PyStr(K2)
    /\ call.origin.password = PyStr(K2)
    /\ AlgorithmOf(call) = PyStr("PBEWithMD5AndTripleDES")
    /\ AlgorithmOf(call.origin) = PyStr("PBEWithMD5AndTripleDES")
    /\ self.iterations = PyInt(DEFAULT_ITERATIONS)
    /\ call.outcome = Returned(PyStr(PlainText(3)))

\* C2 (fresh salt): every encrypt call draws 8 bytes of salt, and of two
\* encrypt calls with the same plaintext, password and algorithm whose
\* salts differ, the tokens differ, and decrypt with that password and
\* algorithm returns the plaintext for either token.
FreshSalt ==
    ( /\ call.op = "encrypt"
      /\ call.outcome.ok )
    => /\ call.steps[1] = "get_random_bytes"
       /\ Len(call.salt) = SALT_SIZE
       /\ ( /\ call.earlier # <<>>
            /\ call.earlier[1].salt # call.salt )
          => /\ call.earlier[1].token # call.outcome.value.s
             /\ decrypt(self, call.outcome.value.s, call.password,
                        call.algorithm).outcome
                = Returned(PyStr(call.plain_text))
             /\ decrypt(self, call.earlier[1].token, call.password,
                        call.algorithm).outcome
                = Returned(PyStr(call.plain_text))

\* Two encrypt calls with the same arguments have drawn different salts
\* and returned different tokens.
TwoTokens ==
    /\ call.op = "encrypt"
    /\ call.outcome.ok
    /\ call.earlier # <<>>
    /\ call.earlier[1].salt # call.salt
    /\ call.earlier[1].token # call.outcome.value.s
    /\ call.plain_text # <<>>

\* C3 (token layout): the token of a successful encrypt call decodes from
\* Base64 to the 8 bytes of salt followed by the ciphertext, 8 +
\* len(ciphertext) bytes in all, and the ciphertext is one or more whole
\* blocks of 8 bytes.
TokenLayout ==
    ( /\ call.op = "encrypt"
      /\ call.outcome.ok )
    => LET token_bytes == b64decode(call.outcome.value.s)
       IN  /\ token_bytes.ok
           /\ token_bytes.bytes = call.salt \o call.encrypted
           /\ Len(call.salt) = 8
           /\ Len(token_bytes.bytes) = 8 + Len(call.encrypted)
           /\ Len(call.encrypted) > 0
           /\ Len(call.encrypted) % block_size = 0

\* Tokens of each length the plaintexts give: one block for the empty
\* plaintext under PBEWithSHA1AndDESede.
TokenOfEmptyText ==
    /\ call.op = "encrypt"
    /\ call.outcome.ok
    /\ call.plain_text = <<>>
    /\ AlgorithmOf(call) = PyStr("PBEWithSHA1AndDESede")
    /\ Len(call.encrypted) = block_size
    /\ Len(call.outcome.value.s) = 24

\* An algorithm argument that names no entry of ALGORITHMS, and one that
\* is, besides, not the empty string.
Unregistered(algorithm) ==
    algorithm # None /\ ~Has(ALGORITHMS, algorithm.s)
NamedUnregistered(algorithm) ==
    Unregistered(algorithm) /\ Len(algorithm.s) > 0

\* The raise statement of line `at` ended the call before it had salt
\* drawn, Base64 decoded, a key derived or a cipher built.
RaisedAtOnce(c, at) ==
    /\ c.outcome = Raised("ValueError", at, "")
    /\ c.steps = <<>>
    /\ c.kdf = <<>>

\* C4 as stated: an algorithm name that is not exactly one of the
\* registered names makes the constructor, encrypt and decrypt fail
\* before any salt, key derivation, Base64 decoding or cipher work.
UnregisteredNameRejected ==
    ( /\ call.op \in {"__init__", "encrypt", "decrypt"}
      /\ Unregistered(call.algorithm) )
    => /\ ~call.outcome.ok
       /\ call.steps = <<>>
       /\ call.kdf = <<>>

\* C4 (amended): a non-empty algorithm name that is not exactly one of
\* the registered names makes the constructor raise ValueError at line 77,
\* and makes encrypt and decrypt raise ValueError before any salt, key
\* derivation, Base64 decoding or cipher work: at the algorithm check
\* (lines 144, 194) when the call has a password, at the password check
\* before it (lines 141, 191) when it has none.
NamedUnregisteredRejected ==
    /\ ( /\ call.op = "__init__"
         /\ NamedUnregistered(call.algorithm) )
       => RaisedAtOnce(call, "__init__:77")
    /\ ( /\ call.op = "encrypt"
         /\ NamedUnregistered(call.algorithm) )
       => IF Truthy(PasswordOf(call))
          THEN RaisedAtOnce(call, "encrypt:144")
          ELSE RaisedAtOnce(call, "encrypt:141")
    /\ ( /\ call.op = "decrypt"
         /\ NamedUnregistered(call.algorithm) )
       => IF Truthy(PasswordOf(call))
          THEN RaisedAtOnce(call, "decrypt:194")
          ELSE RaisedAtOnce(call, "decrypt:191")

\* decrypt, with a password, has turned down the name of a registered
\* algorithm written in lower case.
LowerCaseNameRejected ==
    /\ call.op = "decrypt"
    /\ call.algorithm = PyStr("pbewithmd5anddes")
    /\ Truthy(PasswordOf(call))
    /\ RaisedAtOnce(call, "decrypt:194")

\* C5 as stated: an iteration count of zero or less never reaches the
\* key derivation: no call of encrypt or decrypt runs the KDF with such a
\* count, and no token comes from an encryptor that holds one.
NonPositiveIterationsRejected ==
    ( call.op \in {"encrypt", "decrypt"} )
    => /\ \A i \in 1..Len(call.kdf) : call.kdf[i] > 0
       /\ ~(call.outcome.ok /\ self.iterations.n <= 0)

\* C6 (missing password): when the call gives no non-empty password and
\* the instance holds none, encrypt raises at line 141 and decrypt at
\* line 191, before any salt, Base64 decoding, key derivation or cipher
\* work.
MissingPasswordFailsFirst ==
    ( /\ call.op \in {"encrypt", "decrypt"}
      /\ call.password \in {None, PyStr(<<>>)}
      /\ self.password \in {None, PyStr(<<>>)} )
    => RaisedAtOnce(call, IF call.op = "encrypt" THEN "encrypt:141"
                          ELSE "decrypt:191")

\* decrypt was called with an empty password on an encryptor built
\* without one, on a token text that is not empty.
DecryptWithoutPassword ==
    /\ call.op = "decrypt"
    /\ call.password = PyStr(<<>>)
    /\ self.password = None
    /\ call.encrypted_text # <<>>
    /\ RaisedAtOnce(call, "decrypt:191")

\* Text in the form of RFC 4648 Base64: whole quads of characters of the
\* standard alphabet, the last quad ending in at most two '='.
IsBase64(text) ==
    /\ Len(text) % 4 = 0
    /\ \E pads \in 0..2 :
          /\ pads <= Len(text)
          /\ \A i \in 1..(Len(text) - pads) :
                \E j \in 1..Len(B64Alphabet) : B64Alphabet[j] = text[i]
          /\ \A i \in (Len(text) - pads + 1)..Len(text) : text[i] = B64Pad[1]

\* C7 as stated: decrypt of token text that is not valid Base64 (a
\* character outside the standard alphabet, or wrong padding) raises and
\* returns no plaintext.
NonBase64Rejected ==
    ( /\ call.op = "decrypt"
      /\ ~IsBase64(call.encrypted_text) )
    => ~call.outcome.ok

\* The bytes that the token text of a decrypt call decodes to are fewer
\* than the salt; the call had a password and a registered algorithm.
ShortToken(c) ==
    /\ c.op = "decrypt"
    /\ c.steps # <<>>
    /\ b64decode(c.encrypted_text).ok
    /\ Len(b64decode(c.encrypted_text).bytes) < SALT_SIZE

\* C8 as stated: Base64 text that decodes to fewer than 8 bytes is turned
\* down by a check of the decoded length, before the salt is split off and
\* before any key derivation, and decrypt returns no plaintext.
ShortTokenRejectedByLengthCheck ==
    ShortToken(call)
    => /\ ~call.outcome.ok
       /\ call.steps = <<"b64decode">>
       /\ call.kdf = <<>>
       /\ "salt" \notin DOMAIN call

\* C8 (amended): Base64 text that decodes to fewer than 8 bytes makes
\* decrypt raise the ValueError of line 226 and return no plaintext, but
\* no check of the decoded length does it: all the decoded bytes become
\* the salt, the ciphertext is empty, the key is derived and the cipher
\* built, and the call fails where unpad finds zero-length input (or
\* where DES3.new turns down a key that degenerates to single DES).
ShortTokenFailsAtUnpad ==
    ShortToken(call)
    => /\ ~call.outcome.ok
       /\ call.outcome.exc = "ValueError"
       /\ call.outcome.at = "decrypt:226"
       /\ call.salt = b64decode(call.encrypted_text).bytes
       /\ call.ciphertext = <<>>
       /\ call.kdf = <<self.iterations.n>>
       /\ \/ /\ call.steps = <<"b64decode", "_openssl_kdf", "new",
                               "decrypt", "unpad">>
             /\ call.outcome.cause = "Zero-length input cannot be unpadded"
          \/ /\ call.steps = <<"b64decode", "_openssl_kdf", "new">>
             /\ call.outcome.cause
                = "Triple DES key degenerates to single DES"

\* decrypt of "AAAA", which decodes to three bytes, has derived a key from
\* a salt of three bytes and failed at unpad.
ThreeByteTokenFailed ==
    /\ ShortToken(call)
    /\ call.encrypted_text = <<65, 65, 65, 65>>
    /\ Len(call.salt) = 3
    /\ call.steps = <<"b64decode", "_openssl_kdf", "new", "decrypt", "unpad">>
    /\ ~call.outcome.ok

\* The ciphertext part of the token of a decrypt call, the decoded bytes
\* after the first 8, is not whole blocks.
RaggedCiphertext(c) ==
    /\ c.op = "decrypt"
    /\ "ciphertext" \in DOMAIN c
    /\ Len(c.ciphertext) % block_size # 0

\* What decrypt raises for a padding failure and for a UTF-8 failure.
PaddingFailure == decrypt_failed("Padding is incorrect.", <<>>, <<>>).outcome
Utf8Failure ==
    decrypt_failed("'utf-8' codec can't decode", <<>>, <<>>).outcome

\* C9 as stated: a token whose ciphertext part is not a multiple of the
\* block size is turned down with an error of a kind that the caller can
\* tell from the kind raised for a padding or UTF-8 failure.
ErrorKindsDistinct ==
    RaggedCiphertext(call)
    => /\ ~call.outcome.ok
       /\ call.outcome.exc # PaddingFailure.exc
       /\ call.outcome.exc # Utf8Failure.exc

\* C9 (amended): a token whose ciphertext part is not a multiple of the
\* block size makes cipher.decrypt raise, and decrypt raises for it the
\* same kind of error, from the same except clause, as for a padding or a
\* UTF-8 failure (as for every error of its try block): a ValueError at
\* line 226.  The errors differ in nothing but the library message that
\* the ValueError's text carries.
ErrorKindsUniform ==
    /\ RaggedCiphertext(call)
       => /\ ~call.outcome.ok
          /\ call.outcome.exc = PaddingFailure.exc
          /\ call.outcome.exc = Utf8Failure.exc
          /\ call.outcome.at = PaddingFailure.at
          /\ call.outcome.cause
             = "Data must be padded to 8 byte boundary in CBC mode"
          /\ call.outcome.cause \notin {PaddingFailure.cause,
                                        Utf8Failure.cause}
    /\ ( /\ call.op = "decrypt"
         /\ call.steps # <<>>
         /\ ~call.outcome.ok )
       => /\ call.outcome.exc = "ValueError"
          /\ call.outcome.at = "decrypt:226"

\* decrypt of a token that lost its last quad has failed in cipher.decrypt.
RaggedCiphertextFailed ==
    /\ RaggedCiphertext(call)
    /\ call.tamper = "cut"
    /\ call.steps = <<"b64decode", "_openssl_kdf", "new", "decrypt">>
    /\ ~call.outcome.ok

\* The padding that block decryption left is invalid: the last byte, the
\* padding length, is zero, or more than the block size, or more than the
\* bytes there are, or the bytes it counts are not all equal to it.
BadPadding(data) ==
    /\ Len(data) > 0
    /\ LET n == data[Len(data)]
       IN  \/ n = 0
           \/ n > block_size
           \/ n > Len(data)
           \/ \E i \in (Len(data) - n + 1)..Len(data) : data[i] # n

\* C10 (padding validation): when the bytes that block decryption gave
\* carry invalid padding, decrypt fails at unpad with the ValueError of
\* line 226 that wraps the padding error, and returns no plaintext.
BadPaddingFails ==
    ( /\ call.op = "decrypt"
      /\ "decrypted" \in DOMAIN call
      /\ BadPadding(call.decrypted) )
    => /\ ~call.outcome.ok
       /\ call.outcome.exc = "ValueError"
       /\ call.outcome.at = "decrypt:226"
       /\ call.outcome.cause \in {"Padding is incorrect.",
                                  "PKCS#7 padding is incorrect."}
       /\ call.steps = <<"b64decode", "_openssl_kdf", "new", "decrypt",
                         "unpad">>

\* decrypt of a token with one ciphertext byte changed has found padding
\* bytes that differ from the padding length.
BadPaddingFound ==
    /\ call.op = "decrypt"
    /\ call.tamper = "flip"
    /\ "decrypted" \in DOMAIN call
    /\ BadPadding(call.decrypted)
    /\ call.outcome.ok = FALSE
    /\ call.outcome.cause = "PKCS#7 padding is incorrect."

\* One character in UTF-8, by the grammar of RFC 3629: c is its bytes.
Utf8Char(c) ==
    LET Tail1(x) == x >= 128 /\ x <= 191
    IN  \/ Len(c) = 1 /\ c[1] <= 127
        \/ Len(c) = 2 /\ c[1] >= 194 /\ c[1] <= 223 /\ Tail1(c[2])
        \/ /\ Len(c) = 3
           /\ Tail1(c[3])
           /\ \/ c[1] = 224 /\ c[2] >= 160 /\ c[2] <= 191
              \/ c[1] >= 225 /\ c[1] <= 236 /\ Tail1(c[2])
              \/ c[1] = 237 /\ c[2] >= 128 /\ c[2] <= 159
              \/ c[1] >= 238 /\ c[1] <= 239 /\ Tail1(c[2])
        \/ /\ Len(c) = 4
           /\ Tail1(c[3]) /\ Tail1(c[4])
           /\ \/ c[1] = 240 /\ c[2] >= 144 /\ c[2] <= 191
              \/ c[1] >= 241 /\ c[1] <= 243 /\ Tail1(c[2])
              \/ c[1] = 244 /\ c[2] >= 128 /\ c[2] <= 143

RECURSIVE WellFormedUtf8(_)
\* The bytes b are a sequence of characters in UTF-8.
WellFormedUtf8(b) ==
    \/ b = <<>>
    \/ \E n \in 1..4 :
          /\ n <= Len(b)
          /\ Utf8Char(SubSeq(b, 1, n))
          /\ WellFormedUtf8(SubSeq(b, n + 1, Len(b)))

\* Block decryption gave the call bytes with valid padding; Unpadded is
\* what is left of them without it.
PaddingValid(c) ==
    /\ c.op = "decrypt"
    /\ "decrypted" \in DOMAIN c
    /\ Len(c.decrypted) > 0
    /\ ~BadPadding(c.decrypted)
Unpadded(c) ==
    SubSeq(c.decrypted, 1, Len(c.decrypted) - c.decrypted[Len(c.decrypted)])

\* C11 (UTF-8 failure): when unpadding succeeds on bytes that are not
\* valid UTF-8, decrypt raises (the ValueError of line 226, after the
\* decode step) and returns no text; decrypt returns a string only when
\* the unpadded bytes are valid UTF-8, and then the string they encode.
InvalidUtf8Fails ==
    /\ ( PaddingValid(call) /\ ~WellFormedUtf8(Unpadded(call)) )
       => /\ call.outcome
             = Raised("ValueError", "decrypt:226",
                      "'utf-8' codec can't decode")
          /\ call.steps[Len(call.steps)] = "decode"
    /\ ( call.op = "decrypt" /\ call.outcome.ok )
       => /\ PaddingValid(call)
          /\ WellFormedUtf8(Unpadded(call))
          /\ call.outcome.value.type = "str"
          /\ utf8_encode(call.outcome.value.s) = Unpadded(call)

\* decrypt has unpadded bytes that are not UTF-8 and raised.
InvalidUtf8Found ==
    /\ PaddingValid(call)
    /\ ~WellFormedUtf8(Unpadded(call))
    /\ ~call.outcome.ok
    /\ call.steps = <<"b64decode", "_openssl_kdf", "new", "decrypt",
                      "unpad", "decode">>

\* decrypt was called on the token of an encrypt call, as encrypt
\* returned it.
DecryptOfToken(c) ==
    /\ c.op = "decrypt"
    /\ c.tamper = "none"

\* C12 (wrong password): decrypt of a token that encrypt(p, k, a)
\* returned, with a password k' # k and the same algorithm, does not
\* return p; it raises the ValueError of line 226, unless the bytes that
\* the wrong key gives carry valid padding and are valid UTF-8, and only
\* then does it return a text.
WrongPasswordFails ==
    ( /\ DecryptOfToken(call)
      /\ Truthy(PasswordOf(call))
      /\ PasswordOf(call) # PasswordOf(call.origin)
      /\ AlgorithmOf(call) = AlgorithmOf(call.origin) )
    => /\ call.outcome # Returned(PyStr(call.origin.plain_text))
       /\ IF PaddingValid(call) /\ WellFormedUtf8(Unpadded(call))
          THEN call.outcome.ok
          ELSE /\ ~call.outcome.ok
               /\ call.outcome.exc = "ValueError"
               /\ call.outcome.at = "decrypt:226"

\* decrypt with the instance's password "pw", of a token that encrypt made
\* with the password "Kéy" given to the call, both under the default
\* algorithm and 1000 iterations, has failed at unpad.
WrongPasswordFailed ==
    /\ DecryptOfToken(call)
    /\ call.origin.password = PyStr(K2)
    /\ call.password = None
    /\ self.password = PyStr(K1)
    /\ AlgorithmOf(call) = PyStr(DEFAULT_ALGORITHM)
    /\ AlgorithmOf(call.origin) = PyStr(DEFAULT_ALGORITHM)
    /\ self.iterations = PyInt(DEFAULT_ITERATIONS)
    /\ call.origin.plain_text # <<>>
    /\ call.outcome.ok = FALSE
    /\ call.outcome.at = "decrypt:226"
    /\ call.steps[Len(call.steps)] = "unpad"

\* decrypt was called under PBEWithSHA1AndDESede on a token that encrypt
\* made under PBEWithMD5AndDES, with the password of that encrypt call.
AcrossAlgorithms(c) ==
    /\ DecryptOfToken(c)
    /\ AlgorithmOf(c.origin) = PyStr("PBEWithMD5AndDES")
    /\ AlgorithmOf(c) = PyStr("PBEWithSHA1AndDESede")
    /\ PasswordOf(c) = PasswordOf(c.origin)

EnvelopeUnwrapped ==
    ( call.op = "decrypt_config_value" )
    => /\ IF /\ startswith(call.config_value, ENC_OPEN)
             /\ endswith(call.config_value, ENC_CLOSE)
          THEN ENC_OPEN \o call.encrypted_text \o ENC_CLOSE
               = call.config_value
          ELSE call.encrypted_text = call.config_value
       /\ call.form = "wrapped" => call.encrypted_text = call.origin.token
       /\ call.outcome
          = decrypt(self, call.encrypted_text, None, None).outcome

\* decrypt_config_value of "ENC(ENC(A))" has handed "ENC(A)" to decrypt.
NestedEnvelopeUnwrapped ==
    /\ call.op = "decrypt_config_value"
    /\ call.config_value
       = ENC_OPEN \o ENC_OPEN \o <<65>> \o ENC_CLOSE \o ENC_CLOSE
    /\ call.encrypted_text = ENC_OPEN \o <<65>> \o ENC_CLOSE
    /\ call.steps # <<>>

\* C15 (config wrap and unwrap): encrypt_config_value(p) returns "ENC(" +
\* token + ")" for the token that encrypt returns for p with the salt
\* drawn, and decrypt_config_value on the same encryptor returns p for
\* the wrapped value, the same as for the bare token.
ConfigValueRoundTrip ==
    /\ ( call.op = "encrypt_config_value" /\ call.outcome.ok )
       => /\ encrypt(self, call.plain_text, None, None,
                     call.salt).outcome = Returned(PyStr(call.token))
          /\ call.outcome
             = Returned(PyStr(ENC_OPEN \o call.token \o ENC_CLOSE))
    /\ ( call.op = "decrypt_config_value"
         /\ call.form \in {"wrapped", "bare"} )
       => /\ call.outcome = Returned(PyStr(call.origin.plain_text))
          /\ decrypt_config_value(self, call.origin.token).outcome
             = decrypt_config_value(self,
                   ENC_OPEN \o call.origin.token \o ENC_CLOSE).outcome

\* decrypt_config_value has returned the plaintext of the wrapped value
\* that encrypt_config_value made under PBEWithSHA1AndDESede.
ConfigValueDecrypted ==
    /\ call.op = "decrypt_config_value"
    /\ call.form = "wrapped"
    /\ call.origin.plain_text = PlainText(2)
    /\ self.algorithm = PyStr("PBEWithSHA1AndDESede")
    /\ call.outcome = Returned(PyStr(PlainText(2)))

\* The fixed parameters of a profile of the registry.
Profile(entry, name, cipher, key_size, hash_algo) ==
    entry = [name |-> name, cipher |-> cipher, key_size |-> key_size,
             iv_size |-> 8, hash_algo |-> hash_algo, mode |-> "MODE_CBC"]

\* C16 (registry): in every state, after any operation, the registry holds
\* exactly three profiles, in this order: PBEWithMD5AndDES (DES, key 8,
\* IV 8, MD5), PBEWithMD5AndTripleDES (triple DES, key 24, IV 8, MD5),
\* PBEWithSHA1AndDESede (triple DES, key 24, IV 8, SHA-1), all CBC; and
\* every call of get_supported_algorithms returns the list of these three
\* names in that order.
RegistryFixed ==
    /\ Len(ALGORITHMS) = 3
    /\ Profile(ALGORITHMS[1], "PBEWithMD5AndDES", "DES", 8, "MD5")
    /\ Profile(ALGORITHMS[2], "PBEWithMD5AndTripleDES", "DES3", 24, "MD5")
    /\ Profile(ALGORITHMS[3], "PBEWithSHA1AndDESede", "DES3", 24, "SHA1")
    /\ ( call.op = "get_supported_algorithms" )
       => call.outcome
          = Returned(<< "PBEWithMD5AndDES", "PBEWithMD5AndTripleDES",
                        "PBEWithSHA1AndDESede" >>)

\* get_supported_algorithms has returned its list while an encryptor of
\* another profile than the default exists.
SupportedAlgorithmsListed ==
    /\ call.op = "get_supported_algorithms"
    /\ call.outcome.ok
    /\ Len(call.outcome.value) = 3
    /\ self # None
    /\ self.algorithm = PyStr("PBEWithSHA1AndDESede")

\* The encryptor a caller gets who names neither algorithm nor iteration
\* count.
DefaultEncryptor(password) ==
    [password |-> password, algorithm |-> PyStr("PBEWithMD5AndDES"),
     iterations |-> PyInt(1000)]

\* C17 (fixed defaults): in every state a constructor call that names no
\* algorithm and no iteration count gives an encryptor of PBEWithMD5AndDES
\* and 1000 iterations; a constructor call, an encrypt_with_config or
\* decrypt_with_config call and a call of the module-level encrypt or
\* decrypt that is given no algorithm works with PBEWithMD5AndDES, one
\* that is given no iteration count (the module-level functions never are)
\* works with 1000 iterations, and with neither it returns or raises what
\* encrypt or decrypt does for PBEWithMD5AndDES and 1000 iterations.
DefaultsFixed ==
    /\ __init__(None, None, None).outcome = Returned(DefaultEncryptor(None))
    /\ ( call.op = "__init__" /\ call.algorithm = None )
       => /\ call.outcome.ok
          /\ call.outcome.value.algorithm = PyStr("PBEWithMD5AndDES")
    /\ ( call.op = "__init__" /\ call.iterations = None /\ call.outcome.ok )
       => call.outcome.value.iterations = PyInt(1000)
    /\ ( /\ call.op \in {"encrypt_with_config", "decrypt_with_config",
                         "quick_encrypt", "quick_decrypt"}
         /\ call.algorithm \in {None, Omitted} )
       => /\ "encryptor" \in DOMAIN call
          /\ call.encryptor.algorithm = PyStr("PBEWithMD5AndDES")
    /\ ( /\ call.op \in {"encrypt_with_config", "decrypt_with_config"}
         /\ call.iterations = None
         /\ "encryptor" \in DOMAIN call )
       => /\ call.encryptor.iterations = PyInt(1000)
          /\ call.kdf \in {<<>>, <<1000>>}
    /\ ( /\ call.op \in {"quick_encrypt", "quick_decrypt"}
         /\ "encryptor" \in DOMAIN call )
       => /\ call.encryptor.iterations = PyInt(1000)
          /\ call.kdf \in {<<>>, <<1000>>}
    /\ ( \/ /\ call.op = "encrypt_with_config"
            /\ call.algorithm = None /\ call.iterations = None
         \/ call.op = "quick_encrypt" /\ call.algorithm = Omitted )
       => /\ call.encryptor = DefaultEncryptor(call.password)
          /\ "salt" \in DOMAIN call
             => call.outcome
                = encrypt(DefaultEncryptor(None), call.plain_text,
                          call.password, PyStr("PBEWithMD5AndDES"),
                          call.salt).outcome
    /\ ( \/ /\ call.op = "decrypt_with_config"
            /\ call.algorithm = None /\ call.iterations = None
         \/ call.op = "quick_decrypt" /\ call.algorithm = Omitted )
       => /\ call.encryptor = DefaultEncryptor(call.password)
          /\ call.outcome
             = decrypt(DefaultEncryptor(None), call.encrypted_text,
                       call.password, PyStr("PBEWithMD5AndDES")).outcome
          /\ call.outcome = Returned(PyStr(call.origin.plain_text))

\* The module-level decrypt, given a password and a token only, has
\* returned the text that the module-level encrypt was given.
QuickDecryptByDefault ==
    /\ call.op = "quick_decrypt"
    /\ call.algorithm = Omitted
    /\ call.kdf = <<1000>>
    /\ call.origin.plain_text = PlainText(1)
    /\ call.outcome = Returned(PyStr(PlainText(1)))

\* The methods of an encryptor that encrypt or decrypt.
Methods ==
    {"encrypt", "decrypt", "encrypt_config_value", "decrypt_config_value"}

\* C18 (no mutation): every call of encrypt, decrypt, encrypt_config_value
\* or decrypt_config_value on an encryptor, whether it returns or raises
\* and whatever password and algorithm it is given, leaves the
\* encryptor's password, algorithm and iterations and the registry as
\* they were before the call; so they are, after any sequence of such
\* calls, as the constructor left them.
NoMutation ==
    [][ call'.op \in Methods
        => /\ self'.password = self.password
           /\ self'.algorithm = self.algorithm
           /\ self'.iterations = self.iterations
           /\ ALGORITHMS' = ALGORITHMS ]_vars

\* A decrypt call given a password and an algorithm of its own has
\* raised, on an encryptor that was made with another password and
\* another algorithm and still has them.
CallWithOwnArguments ==
    /\ call.op = "decrypt"
    /\ call.password = PyStr(K2)
    /\ call.algorithm = PyStr("PBEWithSHA1AndDESede")
    /\ ~call.outcome.ok
    /\ call.steps # <<>>
    /\ self.password = PyStr(K1)
    /\ self.algorithm = PyStr("PBEWithMD5AndDES")

\* C19 as stated (no caching): no call leaves the password it was given
\* in the encryptor, and an encrypt or decrypt call that derives a key
\* was given its password on that call.
PasswordNeverCached ==
    /\ ( call.op = "__init__" /\ call.outcome.ok /\ Truthy(call.password) )
       => self.password # call.password
    /\ ( call.op \in {"encrypt", "decrypt"} /\ call.kdf # <<>> )
       => Truthy(call.password)

\* The password an encrypt or decrypt call works with: the one given on
\* the call, and the encryptor's when none (or an empty one) is given.
GivenOrKept(c) == IF Truthy(c.password) THEN c.password ELSE self.password

\* C19, amended: the constructor keeps the password it is given in the
\* encryptor.  An encrypt or decrypt call works with the password given on
\* the call and, when none is given, with the one the encryptor keeps
\* (encrypt_config_value always with that one); it does not store the
\* password it is given: the encryptor's password after the call is the
\* one before it.  The encryptor that encrypt_with_config,
\* decrypt_with_config and the module-level functions make is not kept.
OnlyConstructorKeepsPassword ==
    /\ [] /\ ( call.op = "__init__" /\ call.outcome.ok )
             => self.password = call.password
          /\ ( call.op = "encrypt" /\ "key" \in DOMAIN call )
             => call.key
                = derive(utf8_encode(GivenOrKept(call).s), call.salt,
                         Lookup(ALGORITHMS, AlgorithmOf(call).s),
                         self.iterations.n).key
          /\ ( call.op = "encrypt_config_value" /\ "key" \in DOMAIN call )
             => call.key
                = derive(utf8_encode(self.password.s), call.salt,
                         Lookup(ALGORITHMS, self.algorithm.s),
                         self.iterations.n).key
          /\ ( call.op = "decrypt" )
             => call.outcome
                = decrypt([self EXCEPT !.password = GivenOrKept(call)],
                          call.encrypted_text, None,
                          call.algorithm).outcome
    /\ [][ /\ call'.op \in Methods => self'.password = self.password
           /\ call'.op \in {"encrypt_with_config", "decrypt_with_config",
                            "quick_encrypt", "quick_decrypt"}
              => self' = self ]_vars

\* An encrypt call given a password of its own has returned a token, and
\* the encryptor has the password of its construction.
OwnPasswordNotKept ==
    /\ call.op = "encrypt"
    /\ call.password = PyStr(K2)
    /\ call.outcome.ok
    /\ self.password = PyStr(K1)

\* What a call returns or raises when it runs alone: the method, applied
\* to the encryptor as it was when the call began.
Alone(f) ==
    IF f.op = "encrypt"
    THEN encrypt(f.before, f.plain_text, f.password, f.algorithm,
                 f.salt).outcome
    ELSE decrypt(f.before, f.encrypted_text, f.password,
                 f.algorithm).outcome

\* C20 (concurrent calls): however the steps of the encrypt and decrypt
\* calls of the threads interleave, on the shared encryptor or on
\* encryptors of their own, each call returns or raises what it returns or
\* raises when run alone with the same arguments and the same salt, and
\* the shared encryptor and the registry stay as they were.
ConcurrentCallsIndependent ==
    /\ \A t \in Threads :
          threads[t].pc = "done" => threads[t].outcome = Alone(threads[t])
    /\ self \in SharedEncryptors
    /\ ALGORITHMS = AlgorithmTable

\* Thread 1 has its result from the shared encryptor, without a password
\* of its own, while thread 2, which brought a password, is inside a call
\* on the same encryptor.
CallsInterleaved ==
    /\ threads[1].pc = "done"
    /\ threads[1].this = "shared"
    /\ threads[1].password = None
    /\ threads[1].op = "decrypt"
    /\ threads[1].outcome.ok
    /\ threads[2].pc = "run"
    /\ threads[2].this = "shared"
    /\ threads[2].password = PyStr(K2)

\* C21 (atomicity): an encrypt or decrypt call ends in one of two ways.
\* Either it returns a string after all its steps, and the string is the
\* whole result: the Base64 text of salt and all blocks of ciphertext, or
\* the text of all bytes left after unpadding the whole decrypted
\* ciphertext.  Or it raises, and then there is no value.  A call that
\* raises leaves the encryptor and the registry as they were before it.
Atomicity ==
    /\ [] ( call.op \in {"encrypt", "decrypt"}
            => IF call.outcome.ok
               THEN /\ DOMAIN call.outcome = {"ok", "value"}
                    /\ call.outcome.value.type = "str"
                    /\ Len(call.steps) = 6
                    /\ IF call.op = "encrypt"
                       THEN /\ call.steps[6] = "b64encode"
                            /\ b64decode(call.outcome.value.s).bytes
                               = call.salt \o call.encrypted
                            /\ Len(call.encrypted) = Len(call.padded_data)
                       ELSE /\ call.steps[6] = "decode"
                            /\ Len(call.decrypted) = Len(call.ciphertext)
                            /\ utf8_encode(call.outcome.value.s)
                               = unpad(call.decrypted, block_size).bytes
               ELSE /\ DOMAIN call.outcome = {"ok", "exc", "at", "cause"}
                    /\ call.outcome.exc = "ValueError" )
    /\ [][ ( call'.op \in {"encrypt", "decrypt"} /\ ~call'.outcome.ok )
           => self' = self /\ ALGORITHMS' = ALGORITHMS ]_vars

\* A decrypt call has raised after the cipher decrypted every block, at
\* unpad, on an encryptor that has its password.
DecryptRaisedAtUnpad ==
    /\ call.op = "decrypt"
    /\ ~call.outcome.ok
    /\ Len(call.steps) = 5
    /\ Len(call.decrypted) = 2 * block_size
    /\ self.password = PyStr(K1)

\* The text the token of the test carries: 'cem123'.
java_plaintext == PyStr(<<99, 101, 109, 49, 50, 51>>)

\* MD5 and DES are the functions of their standards: the digest of 'abc'
\* (RFC 1321, A.5), and a block of the classic worked example of DES, in
\* both directions.
LibraryPrimitives ==
    /\ MD5(<<97, 98, 99>>)
       = <<144, 1, 80, 152, 60, 210, 79, 176,
           214, 150, 63, 125, 40, 225, 127, 114>>
    /\ DES_encrypt(<<19, 52, 87, 121, 155, 188, 223, 241>>,
                   <<1, 35, 69, 103, 137, 171, 205, 239>>)
       = <<133, 232, 19, 84, 15, 10, 180, 5>>
    /\ DES_decrypt(<<19, 52, 87, 121, 155, 188, 223, 241>>,
                   <<133, 232, 19, 84, 15, 10, 180, 5>>)
       = <<1, 35, 69, 103, 137, 171, 205, 239>>

\* C22: decrypt(java_password, java_encrypted) raises nothing and returns
\* the text that was encrypted.  It runs with PBEWithMD5AndDES and 1000
\* iterations; the salt is the first 8 of the 16 bytes the token decodes to
\* and the ciphertext the other 8, one block of DES in CBC mode; the key
\* derivation makes one round of 1000 MD5 digests, the first of them of
\* password || salt.
JavaVectorDecrypts ==
    /\ ( call.op = "_openssl_kdf" /\ "caller" \in DOMAIN call
         /\ call.caller.password = java_password )
       => /\ call.caller.config.name = "PBEWithMD5AndDES"
          /\ call.hash_algo = "Crypto.Hash.MD5"
          /\ call.iterations = 1000
          /\ call.password = utf8_encode(java_password.s)
          /\ Len(call.caller.encrypted_bytes) = 16
          /\ call.salt = SubSeq(call.caller.encrypted_bytes, 1, 8)
          /\ call.caller.ciphertext
             = SubSeq(call.caller.encrypted_bytes, 9, 16)
          /\ call.i <= 1
          /\ call.n <= 1000
          /\ call.datas # <<>> => call.datas[1] = call.password \o call.salt
    /\ ( call.op = "quick_decrypt" /\ call.password = java_password )
       => /\ call.config.cipher = "Crypto.Cipher.DES"
          /\ call.encryptor.iterations = PyInt(1000)
          /\ call.rounds = 1
          /\ call.passes = 1000
          /\ Len(call.key) = 8
          /\ Len(call.iv) = 8
          /\ Len(call.ciphertext) = block_size
          /\ call.pc = "unpad"
             => call.decrypted
                = XorBlock(DES_decrypt(call.key, call.ciphertext), call.iv)
          /\ call.pc = "done"
             => /\ call.outcome = Returned(java_plaintext)
                /\ call.decrypted = utf8_encode(java_plaintext.s) \o <<2, 2>>
                /\ LibraryPrimitives

\* The call of the test has returned 'cem123'.
JavaVectorDecrypted ==
    /\ call.op = "quick_decrypt"
    /\ call.pc = "done"
    /\ call.password = java_password
    /\ call.encrypted_text = java_encrypted.s
    /\ call.algorithm = Omitted
    /\ call.salt = <<223, 108, 136, 231, 249, 89, 142, 145>>
    /\ call.ciphertext = <<55, 111, 32, 63, 194, 250, 207, 127>>
    /\ call.outcome.ok
    /\ call.outcome.value = java_plaintext

\* C23 (KDF round chaining): at every point of a call of _openssl_kdf,
\* the data of round 0 is password + salt and the data of round n >= 1 is
\* m[n - 1] + password + salt, where m[n - 1] is what round n - 1 appended:
\* the digest after all the iterations of that round on its data, a whole
\* digest of the hash module's size when there was at least one
\* iteration; and i counts the rounds appended.
RoundsChained ==
    ( call.op = "_openssl_kdf" )
    => /\ call.i = Len(call.m)
       /\ \A r \in 1..Len(call.datas) :
             call.datas[r]
             = IF r = 1 THEN call.password \o call.salt
               ELSE call.m[r - 1] \o call.password \o call.salt
       /\ \A r \in 1..Len(call.m) :
             /\ call.m[r]
                = rehash(call.hash_algo, call.datas[r], call.iterations)
             /\ call.iterations > 0
                => Len(call.m[r]) = digest_size(call.hash_algo)

\* A call with three iterations has returned after three rounds.
ThreeRoundsChained ==
    /\ call.op = "_openssl_kdf"
    /\ call.pc = "returned"
    /\ call.iterations = 3
    /\ Len(call.m) = 3
    /\ call.password # <<>>
    /\ call.salt # <<>>

\* C24 (KDF iteration placement): in every round of a call with
\* iterations >= 1 the hash is applied `iterations` times: first to the
\* data of the round, then to the digest it gave before and to nothing
\* else; what the round appends to m is the digest of the last
\* application, and nothing else is appended (with one iteration, the
\* digest of the data).  While a round is in its for loop, the hash has
\* been applied as often as the loop has made passes.
IterationsPlaced ==
    ( call.op = "_openssl_kdf" /\ call.iterations >= 1 )
    => /\ Len(call.hashed) = Len(call.datas)
       /\ Len(call.m) = Len(call.hashed) - (IF call.pc = "for" THEN 1 ELSE 0)
       /\ \A r \in 1..Len(call.hashed) :
             LET args == call.hashed[r]
             IN  /\ Len(args) = IF r <= Len(call.m) THEN call.iterations
                                ELSE call.n
                 /\ Len(args) <= call.iterations
                 /\ Len(args) >= 1 => args[1] = call.datas[r]
                 /\ \A k \in 2..Len(args) :
                       /\ args[k] = Digest(call.hash_algo, args[k - 1])
                       /\ Len(args[k]) = digest_size(call.hash_algo)
                 /\ r <= Len(call.m)
                    => call.m[r] = Digest(call.hash_algo, args[Len(args)])
                 /\ ( r <= Len(call.m) /\ call.iterations = 1 )
                    => call.m[r] = Digest(call.hash_algo, call.datas[r])

\* A call with SHA1 and three iterations has returned: two rounds, three
\* applications of the hash in each.
ThreeIterationsPerRound ==
    /\ call.op = "_openssl_kdf"
    /\ call.pc = "returned"
    /\ call.hash_algo = "SHA1"
    /\ call.iterations = 3
    /\ Len(call.hashed) = 2
    /\ Len(call.hashed[1]) = 3
    /\ Len(call.hashed[2]) = 3

\* C25 (KDF output split): a call of _openssl_kdf with iterations >= 1
\* returns after the least number of rounds whose digests together have
\* key_size + iv_size bytes: one round for the sizes of PBEWithMD5AndDES,
\* two for those of PBEWithMD5AndTripleDES and of PBEWithSHA1AndDESede.
\* The key is the first key_size bytes of the digests in their order, the
\* IV the iv_size bytes after them, so the key has key_size bytes and the
\* IV iv_size bytes and they share no byte of the digests.  The function
\* _openssl_kdf that encrypt and decrypt call gives the same key and IV.
OutputSplit ==
    ( call.op = "_openssl_kdf" /\ call.pc = "returned"
      /\ call.iterations >= 1 )
    => LET size == call.key_size + call.iv_size
           rounds == Len(call.m)
       IN  /\ rounds >= 1
           /\ rounds * digest_size(call.hash_algo) >= size
           /\ (rounds - 1) * digest_size(call.hash_algo) < size
           /\ <<call.key_size, call.iv_size, call.hash_algo>>
              = <<8, 8, "MD5">> => rounds = 1
           /\ <<call.key_size, call.iv_size, call.hash_algo>>
              \in {<<24, 8, "MD5">>, <<24, 8, "SHA1">>} => rounds = 2
           /\ call.ms = Concat(call.m)
           /\ Len(call.key) = call.key_size
           /\ Len(call.iv) = call.iv_size
           /\ \A j \in 1..call.key_size : call.key[j] = call.ms[j]
           /\ \A j \in 1..call.iv_size :
                 call.iv[j] = call.ms[call.key_size + j]
           /\ LET kd == _openssl_kdf(call.password, call.salt, call.key_size,
                                     call.iv_size, call.hash_algo,
                                     call.iterations)
              IN  /\ kd.key = call.key
                  /\ kd.iv = call.iv
                  /\ kd.rounds = rounds

\* A call with the sizes of PBEWithSHA1AndDESede has returned: two digests
\* of 20 bytes, a key of 24 bytes, an IV of 8, and 8 bytes left over.
SplitOfFortyBytes ==
    /\ call.op = "_openssl_kdf"
    /\ call.pc = "returned"
    /\ call.hash_algo = "SHA1"
    /\ call.iterations = 2
    /\ Len(call.ms) = 40
    /\ Len(call.key) = 24
    /\ Len(call.iv) = 8

\* A call of _openssl_kdf with a non-empty password, a non-empty salt and
\* a positive iteration count.
KdfWellCalled ==
    /\ call.op = "_openssl_kdf"
    /\ call.password # <<>>
    /\ call.salt # <<>>
    /\ call.iterations > 0

\* C26 (KDF totality): a call of _openssl_kdf with a non-empty password, a
\* non-empty salt, the sizes and hash of a profile (or larger sizes) and a
\* positive iteration count returns a key and an IV: it has no statement
\* that raises, every round makes m longer by one digest of the hash's
\* size, so that the while loop ends after the rounds that the sizes take,
\* fewer than MaxRounds, and the call reaches its return.
KdfTotal ==
    /\ [] ( KdfWellCalled
            => /\ call.pc \in {"while", "for", "returned"}
               /\ call.i < MaxRounds
               /\ Len(Concat(call.m))
                  = call.i * digest_size(call.hash_algo)
               /\ (call.i - 1) * digest_size(call.hash_algo)
                  < call.key_size + call.iv_size )
    /\ KdfWellCalled
       ~> ( /\ call.pc = "returned"
            /\ Len(call.key) = call.key_size
            /\ Len(call.iv) = call.iv_size )

\* A well-formed call with the sizes of PBEWithMD5AndTripleDES has
\* returned.
KdfReturned ==
    /\ KdfWellCalled
    /\ call.pc = "returned"
    /\ <<call.key_size, call.iv_size, call.hash_algo>> = <<24, 8, "MD5">>
    /\ call.i = 2

\* C27 (padding length): for a plaintext of n UTF-8 bytes, the ciphertext
\* of a successful encrypt call has 8 * (n \div 8 + 1) bytes, the length of
\* the padded data: n and at least one and at most eight padding bytes, up
\* to the next multiple of 8 (a full block of padding when n is a multiple
\* of 8), and every padding byte is the number of padding bytes.
PaddingLength ==
    ( call.op \in {"encrypt", "encrypt_config_value", "encrypt_with_config",
                   "quick_encrypt"}
      /\ call.outcome.ok )
    => LET plain == utf8_encode(call.plain_text)
           n == Len(plain)
           padding_len == Len(call.padded_data) - n
       IN  /\ Len(call.encrypted) = 8 * ((n \div 8) + 1)
           /\ Len(call.padded_data) = Len(call.encrypted)
           /\ padding_len \in 1..8
           /\ (n + padding_len) % 8 = 0
           /\ n % 8 = 0 => padding_len = 8
           /\ SubSeq(call.padded_data, 1, n) = plain
           /\ \A j \in (n + 1)..Len(call.padded_data) :
                 call.padded_data[j] = padding_len

\* encrypt has returned the token of a plaintext of exactly 8 bytes: two
\* blocks of ciphertext, the second from a block of eight bytes 8.
FullBlockOfPadding ==
    /\ call.op = "encrypt"
    /\ call.outcome.ok
    /\ Len(utf8_encode(call.plain_text)) = 8
    /\ Len(call.encrypted) = 16
    /\ SubSeq(call.padded_data, 9, 16) = <<8, 8, 8, 8, 8, 8, 8, 8>>

\* The iteration count of an encryptor constructed with the argument
\* iterations, by the claim: 1000 for None and for 0, else the argument.
IterationsStored(iterations) ==
    IF iterations = None \/ iterations = PyInt(0) THEN PyInt(1000)
    ELSE iterations

\* C28 (falsy iteration fallback): the encryptor that JasyptEncryptor(...,
\* iterations) returns, and the one that encrypt_with_config and
\* decrypt_with_config construct, has 1000 iterations when iterations is
\* None or 0 and has the argument itself when it is any other integer, a
\* negative one too; and every key derivation of a call on an encryptor
\* is given the encryptor's count as it is.
FalsyIterationsFallBack ==
    /\ ( call.op = "__init__" /\ call.outcome.ok )
       => /\ call.outcome.value.iterations
             = IterationsStored(call.iterations)
          /\ self.iterations = IterationsStored(call.iterations)
    /\ ( /\ call.op \in {"encrypt_with_config", "decrypt_with_config"}
         /\ "encryptor" \in DOMAIN call )
       => /\ call.encryptor.iterations = IterationsStored(call.iterations)
          /\ call.kdf \in {<<>>, <<call.encryptor.iterations.n>>}
    /\ ( call.op \in Methods )
       => call.kdf \in {<<>>, <<self.iterations.n>>}

\* encrypt_with_config with iterations = -1 has derived its key with -1
\* iterations and returned a token.
NegativeIterationsPassedOn ==
    /\ call.op = "encrypt_with_config"
    /\ call.iterations = PyInt(-1)
    /\ call.encryptor.iterations = PyInt(-1)
    /\ call.kdf = <<-1>>
    /\ call.outcome.ok

\* The encryptor whose own values are those an encrypt or decrypt call c
\* works with, by the claim: the password and the algorithm given on the
\* call unless they are left out or empty, else the encryptor's, and the
\* encryptor's iteration count.
Overridden(c) ==
    [password |-> IF c.password \in {None, PyStr(<<>>)} THEN self.password
                  ELSE c.password,
     algorithm |-> IF c.algorithm \in {None, PyStr("")} THEN self.algorithm
                   ELSE c.algorithm,
     iterations |-> self.iterations]

\* C29 (per-call override): an encrypt or decrypt call returns or raises
\* what the same call without password and algorithm arguments does on an
\* encryptor that has the call's non-empty arguments in the place of its
\* own values and the same iteration count; the key of encrypt is derived
\* from that password, for that algorithm, with the encryptor's
\* iterations.  The encryptor keeps its own values, so that a later call
\* without the arguments works with them again.
OverridePrecedence ==
    /\ ( call.op = "encrypt" )
       => /\ call.outcome
             = encrypt(Overridden(call), call.plain_text, None, None,
                       IF "salt" \in DOMAIN call THEN call.salt
                       ELSE SaltOf(1)).outcome
          /\ "key" \in DOMAIN call
             => /\ call.key
                   = derive(utf8_encode(Overridden(call).password.s),
                            call.salt,
                            Lookup(ALGORITHMS,
                                   Overridden(call).algorithm.s),
                            self.iterations.n).key
                /\ call.kdf = <<self.iterations.n>>
    /\ ( call.op = "decrypt" )
       => /\ call.outcome
             = decrypt(Overridden(call), call.encrypted_text, None,
                       None).outcome
          /\ call.kdf \in {<<>>, <<self.iterations.n>>}
          /\ ( call.tamper = "none" /\ Overridden(call.origin) # self
               /\ call.password = None /\ call.algorithm = None )
             => /\ Overridden(call) = self
                /\ call.outcome
                   = decrypt(self, call.encrypted_text, None, None).outcome

\* After an encrypt call with a password and an algorithm of its own, a
\* decrypt call without them has worked with the encryptor's password and
\* algorithm and raised.
LaterCallWithoutOverride ==
    /\ call.op = "decrypt"
    /\ call.tamper = "none"
    /\ call.password = None
    /\ call.algorithm = None
    /\ call.origin.password = PyStr(K2)
    /\ call.origin.algorithm = PyStr("PBEWithSHA1AndDESede")
    /\ self.password = PyStr(K1)
    /\ self.algorithm = PyStr("PBEWithMD5AndDES")
    /\ call.kdf = <<self.iterations.n>>
    /\ ~call.outcome.ok

\* C30 (retry bound and order): in a call of the wrapper with
\* max_retries >= 1, func is called at most max_retries times, and each
\* call but the first after an earlier call raised an exception that was
\* caught and after the sleep that followed it.  A call of func that
\* returns is the last, and the wrapper returns its value.  When the
\* wrapper raises, every call of func has raised and the exception is the
\* one of the last call (after max_retries calls, if it was caught).  A
\* sleep follows only a caught exception of a call that is not the
\* max_retries-th, so there are at most max_retries - 1; the first sleeps
\* for delay and each later one for backoff times the one before.
RetryBounded ==
    ( call.op = "wrapper" /\ call.max_retries >= 1 )
    => LET calls == call.calls
           sleeps == call.sleeps
       IN  /\ Len(calls) <= call.max_retries
           /\ Len(sleeps) <= call.max_retries - 1
           /\ \A k \in 1..(Len(calls) - 1) :
                 /\ calls[k].kind = "Exception"
                 /\ Len(sleeps) >= k
           /\ \A k \in 1..Len(sleeps) :
                 /\ k <= Len(calls)
                 /\ calls[k].kind = "Exception"
                 /\ k < call.max_retries
                 /\ sleeps[k] = IF k = 1 THEN call.delay
                                ELSE sleeps[k - 1] * call.backoff
           /\ Len(sleeps) = Len(calls) => call.pc = "for"
           /\ call.pc = "returned"
              => /\ calls[Len(calls)].kind = "return"
                 /\ call.outcome = Returned(calls[Len(calls)].value)
                 /\ Len(sleeps) = Len(calls) - 1
           /\ call.pc = "raised"
              => /\ Len(calls) >= 1
                 /\ \A k \in 1..Len(calls) : calls[k].kind # "return"
                 /\ ~call.outcome.ok
                 /\ call.outcome.cause = calls[Len(calls)].e
                 /\ Len(sleeps) = Len(calls) - 1
                 /\ calls[Len(calls)].kind = "Exception"
                    => Len(calls) = call.max_retries

\* The wrapper made by retry_on_failure(3, 1, 2) has raised the exception
\* of the third call of func, after sleeps of 1 and 2 seconds.
ThirdAttemptFailed ==
    /\ call.op = "wrapper"
    /\ call.pc = "raised"
    /\ call.max_retries = 3
    /\ call.sleeps = <<1, 2>>
    /\ Len(call.calls) = 3
    /\ call.outcome = Raised("Exception", "wrapper:37", <<"Exception", 3>>)

============================================================================
